---- MODULE Spec2Model ----
(***************************************************************************)
(* A model of swc_macro_sys: the metadata evaluator (meta_data.rs), the    *)
(* macro parser (swc_macro_parser), the conditional transformer            *)
(* (swc_macro_condition_transform/src/lib.rs), the webpack module graph    *)
(* and tree shaker, and the optimise entry points of swc_macro_wasm.       *)
(***************************************************************************)
EXTENDS Integers, Sequences, FiniteSets, TLC

(***************************************************************************)
(* Bounds of the model.                                                    *)
(***************************************************************************)
MaxMacros == 4
MaxPos == 2

(***************************************************************************)
(* serde_json::Value.  Every value is a record of the same shape so that   *)
(* values of different kinds can be compared; f holds the elements of an   *)
(* array or the entries of an object.  JNone is Option::None.              *)
(***************************************************************************)
JVal(k, b, n, s, f) == [k |-> k, b |-> b, n |-> n, s |-> s, f |-> f]
JNone == JVal("none", FALSE, 0, "", <<>>)
JNull == JVal("null", FALSE, 0, "", <<>>)
JBool(b) == JVal("bool", b, 0, "", <<>>)
JNum(n) == JVal("number", FALSE, n, "", <<>>)
JStr(s) == JVal("string", FALSE, 0, s, <<>>)
JArr(elems) == JVal("array", FALSE, 0, "", elems)
JEntry(key, val) == [key |-> key, val |-> val]
JObj(entries) == JVal("object", FALSE, 0, "", entries)

\* serde_json::Value::get(&str): only an object has string-keyed children.
JGet(v, seg) ==
  IF v.k = "object" /\ \E i \in 1..Len(v.f) : v.f[i].key = seg
  THEN v.f[CHOOSE i \in 1..Len(v.f) : v.f[i].key = seg].val
  ELSE JNone

\* Metadata::query: path is the list of segments of path.split('.').
RECURSIVE QueryFrom(_, _)
QueryFrom(v, path) ==
  IF path = <<>> THEN v
  ELSE IF v.k = "none" THEN JNone
  ELSE QueryFrom(JGet(v, Head(path)), Tail(path))

query(meta, path) == QueryFrom(meta, path)

\* feature_analyzer::is_value_truthy (numbers are integers here).
is_value_truthy(v) ==
  CASE v.k = "bool" -> v.b
    [] v.k = "string" -> v.s # ""
    [] v.k = "number" -> v.n # 0
    [] v.k = "array" -> v.f # <<>>
    [] v.k = "object" -> v.f # <<>>
    [] OTHER -> FALSE

evaluate_bool_truthy(meta, path) == is_value_truthy(query(meta, path))

\* Metadata::evaluate_bool
evaluate_bool(meta, path) ==
  LET value == query(meta, path) IN
  IF value.k = "none" THEN FALSE
  ELSE IF value.k = "bool" THEN value.b
  ELSE FALSE

(***************************************************************************)
(* swc expression nodes produced by ToSwcAst, all with DUMMY_SP.           *)
(***************************************************************************)
Ast(t, b, n, s, f) == [t |-> t, b |-> b, n |-> n, s |-> s, f |-> f]
AstNone == Ast("None", FALSE, 0, "", <<>>)
LitNull == Ast("Lit::Null", FALSE, 0, "", <<>>)
LitBool(b) == Ast("Lit::Bool", b, 0, "", <<>>)
LitNum(n) == Ast("Lit::Num", FALSE, n, "", <<>>)
LitStr(s) == Ast("Lit::Str", FALSE, 0, s, <<>>)
ArrayLit(elems) == Ast("Array", FALSE, 0, "", elems)
KeyValueProp(key, value) == [key |-> key, value |-> value]
ObjectLit(props) == Ast("Object", FALSE, 0, "", props)

\* impl ToSwcAst for Value
RECURSIVE to_ast(_)
to_ast(v) ==
  CASE v.k = "null" -> LitNull
    [] v.k = "bool" -> LitBool(v.b)
    [] v.k = "number" -> LitNum(v.n)
    [] v.k = "string" -> LitStr(v.s)
    [] v.k = "array" -> ArrayLit([i \in 1..Len(v.f) |-> to_ast(v.f[i])])
    [] v.k = "object" ->
         ObjectLit([i \in 1..Len(v.f) |-> KeyValueProp(v.f[i].key, to_ast(v.f[i].val))])

\* impl ToSwcAst for String
string_to_ast(s) == LitStr(s)

(***************************************************************************)
(* MacroNode (swc_macro_parser) and Directive (directive.rs).  attrs is    *)
(* the FxHashMap of the node restricted to the keys the transformer reads; *)
(* a condition or value is kept as its list of path segments.              *)
(***************************************************************************)
Attrs(hc, c, hv, v, hd, d) ==
  [has_condition |-> hc, condition |-> c, has_value |-> hv, value |-> v,
   has_default |-> hd, default |-> d]
NoAttrs == Attrs(FALSE, <<>>, FALSE, <<>>, FALSE, "")
MacroNode(directive, attrs) == [directive |-> directive, attrs |-> attrs]
Macro(pos, node) == [pos |-> pos, node |-> node]

\* swc_common::Span::new orders its two ends.
Span(a, b) == IF a <= b THEN [lo |-> a, hi |-> b] ELSE [lo |-> b, hi |-> a]

IfDirective(range, condition) ==
  [kind |-> "If", range |-> range, condition |-> condition,
   pos |-> 0, value |-> <<>>, has_default |-> FALSE, default |-> ""]
DefineInlineDirective(pos, value, has_default, default) ==
  [kind |-> "DefineInline", range |-> Span(0, 0), condition |-> <<>>,
   pos |-> pos, value |-> value, has_default |-> has_default, default |-> default]

NoPanic == ""
PanicNoCondition == "No condition attr in if directive"
PanicUnpaired == "Unpaired :if directive"
PanicNoValue == "No value attr in define-inline directive"
PanicInvalidValue == "value or default is invalid"

\* macros.sort_by_key(|m| m.0): a stable sort on the attach position.
RECURSIVE InsertByKey(_, _)
InsertByKey(sorted, m) ==
  IF sorted = <<>> THEN <<m>>
  ELSE IF sorted[Len(sorted)].pos <= m.pos THEN Append(sorted, m)
  ELSE Append(InsertByKey(SubSeq(sorted, 1, Len(sorted) - 1), m), sorted[Len(sorted)])

RECURSIVE sort_by_key(_)
sort_by_key(ms) ==
  IF ms = <<>> THEN <<>>
  ELSE InsertByKey(sort_by_key(SubSeq(ms, 1, Len(ms) - 1)), ms[Len(ms)])

PopFirst(stack) == [top |-> stack[1], rest |-> Tail(stack)]

\* if_stack.pop(): the entry pushed last.
PopIfStack(stack) ==
  [top |-> stack[Len(stack)], rest |-> SubSeq(stack, 1, Len(stack) - 1)]

\* One iteration of the loop over the sorted macros.
ScanStep(st, m) ==
  IF st.panic # NoPanic THEN st
  ELSE CASE m.node.directive = "if" ->
              IF ~m.node.attrs.has_condition
              THEN [st EXCEPT !.panic = PanicNoCondition]
              ELSE [st EXCEPT !.if_stack =
                      Append(@, [pos |-> m.pos, condition |-> m.node.attrs.condition])]
         [] m.node.directive = "endif" ->
              IF st.if_stack = <<>>
              THEN [st EXCEPT !.panic = PanicUnpaired]
              ELSE LET p == PopIfStack(st.if_stack) IN
                   [st EXCEPT !.if_stack = p.rest,
                              !.directives =
                                 Append(@, IfDirective(Span(p.top.pos, m.pos), p.top.condition))]
         [] m.node.directive = "define-inline" ->
              IF ~m.node.attrs.has_value
              THEN [st EXCEPT !.panic = PanicNoValue]
              ELSE [st EXCEPT !.directives =
                      Append(@, DefineInlineDirective(m.pos, m.node.attrs.value,
                                   m.node.attrs.has_default, m.node.attrs.default))]
         [] OTHER -> st

RECURSIVE ScanFrom(_, _)
ScanFrom(st, ms) ==
  IF ms = <<>> THEN st ELSE ScanFrom(ScanStep(st, Head(ms)), Tail(ms))

\* The first loop of condition_transform, after the sort.
ParseDirectives(ms) ==
  ScanFrom([if_stack |-> <<>>, directives |-> <<>>, panic |-> NoPanic], sort_by_key(ms))

ReplacementNullAbsent(meta, d) ==
  LET q == query(meta, d.value) IN
  IF q.k # "none" /\ q.k # "null" THEN to_ast(q)
  ELSE IF d.has_default THEN string_to_ast(d.default)
  ELSE AstNone

\* query(value).map(to_ast).or_else(default.map(to_ast)); AstNone where expect panics.
Replacement(meta, d) ==
  LET q == query(meta, d.value) IN
  IF q.k # "none" THEN to_ast(q)
  ELSE IF d.has_default THEN string_to_ast(d.default)
  ELSE AstNone

\* One iteration of the loop over the directives.
EvalStep(meta, st, d) ==
  IF st.panic # NoPanic THEN st
  ELSE IF d.kind = "If"
  THEN IF ~evaluate_bool(meta, d.condition)
       THEN [st EXCEPT !.remove_list = @ \cup {d.range}]
       ELSE st
  ELSE LET replacement == Replacement(meta, d) IN
       IF replacement = AstNone
       THEN [st EXCEPT !.panic = PanicInvalidValue]
       ELSE [st EXCEPT !.replace_expr_list =
               Append(@, [pos |-> d.pos, replacement |-> replacement])]

RECURSIVE EvalFrom(_, _, _)
EvalFrom(meta, st, ds) ==
  IF ds = <<>> THEN st ELSE EvalFrom(meta, EvalStep(meta, st, Head(ds)), Tail(ds))

\* The second loop of condition_transform.
EvaluateDirectives(meta, ds) ==
  EvalFrom(meta, [remove_list |-> {}, replace_expr_list |-> <<>>, panic |-> NoPanic], ds)

\* condition_transform as a whole: the transformer, or the panic that ends it.
condition_transform(meta, ms) ==
  LET scanned == ParseDirectives(ms) IN
  IF scanned.panic # NoPanic
  THEN [remove_list |-> {}, replace_expr_list |-> <<>>, panic |-> scanned.panic]
  ELSE EvaluateDirectives(meta, scanned.directives)

(***************************************************************************)
(* The parsed program.  A program is the ordered list of its top-level     *)
(* statements; a statement carries the span the parser gave it and at most *)
(* one child expression:                                                   *)
(*   expr      X;                               child X at lo              *)
(*   decl      var x = X;                       child X at lo + 5          *)
(*   load      __webpack_require__(id);         child the call at lo       *)
(*   declload  var x = __webpack_require__(id); child the call             *)
(*   nested    f(__webpack_require__(id));      child the outer call at lo *)
(*   table     var __webpack_modules__ = {..};  child the object literal   *)
(*   object    var o = {..};                    child the object literal   *)
(*   empty     ;                                (EmptyStmt, DUMMY_SP)      *)
(* expr is Orig while the child is the expression of the source, and the   *)
(* literal that took its place afterwards.  mods lists the properties of   *)
(* an object literal: key, whether the value is a function, and the        *)
(* statements of the function body.                                        *)
(***************************************************************************)
Orig == Ast("Orig", FALSE, 0, "", <<>>)
Stmt(kind, lo, hi, id, expr, mods) ==
  [kind |-> kind, lo |-> lo, hi |-> hi, id |-> id, expr |-> expr, mods |-> mods]
EmptyStmt == Stmt("empty", 0, 0, "", AstNone, <<>>)
BodyStmt(kind, id) == [kind |-> kind, id |-> id]
ModuleDef(key, fn, body) == [key |-> key, fn |-> fn, body |-> body]
DeclKinds == {"decl", "declload", "table", "object"}
ObjectKinds == {"table", "object"}

StmtSpan(s) == [lo |-> s.lo, hi |-> s.hi]
ChildLo(s) == IF s.kind \in DeclKinds THEN s.lo + 5 ELSE s.lo
ChildSpan(s) == [lo |-> ChildLo(s), hi |-> s.hi - 1]

ContainsStrictly(r, sp) == r.lo < sp.lo /\ sp.hi < r.hi

\* swc_common::Span::contains
Contains(r, sp) == r.lo <= sp.lo /\ sp.hi <= r.hi

InRemoveList(t, sp) == \E r \in t.remove_list : Contains(r, sp)

\* The first entry of replace_expr_list whose position is pos, if any.
FindReplacement(t, pos) ==
  IF \E i \in 1..Len(t.replace_expr_list) : t.replace_expr_list[i].pos = pos
  THEN t.replace_expr_list[
         CHOOSE i \in 1..Len(t.replace_expr_list) :
           /\ t.replace_expr_list[i].pos = pos
           /\ \A j \in 1..(i - 1) : t.replace_expr_list[j].pos # pos].replacement
  ELSE AstNone

\* The statement once its child expression has been overwritten by e.
WithExpr(s, e) ==
  Stmt(IF s.kind \in DeclKinds THEN "decl" ELSE "expr", s.lo, s.hi, "", e, <<>>)

visit_mut_expr_remove_first(t, s) ==
  IF InRemoveList(t, ChildSpan(s)) THEN WithExpr(s, LitNull)
  ELSE IF FindReplacement(t, ChildLo(s)) # AstNone
  THEN WithExpr(s, FindReplacement(t, ChildLo(s)))
  ELSE s

\* RemoveReplaceTransformer::visit_mut_expr on the child expression of s.
visit_mut_expr(t, s) ==
  IF FindReplacement(t, ChildLo(s)) # AstNone
  THEN WithExpr(s, FindReplacement(t, ChildLo(s)))
  ELSE IF InRemoveList(t, ChildSpan(s)) THEN WithExpr(s, LitNull)
  ELSE s

visit_mut_stmt_keep(t, s) ==
  IF s.kind = "empty" THEN s ELSE visit_mut_expr(t, s)

\* RemoveReplaceTransformer::visit_mut_module_item and visit_mut_stmt.
visit_mut_stmt(t, s) ==
  IF s.kind = "empty" THEN s
  ELSE IF InRemoveList(t, StmtSpan(s)) THEN EmptyStmt
  ELSE visit_mut_expr(t, s)

\* program.visit_mut_with(&mut transformer)
visit_mut_program(t, prog) ==
  [prog EXCEPT !.body = [i \in 1..Len(prog.body) |-> visit_mut_stmt(t, prog.body[i])]]

(***************************************************************************)
(* Comments (SingleThreadedComments) and MacroParser::parse.  A comment is *)
(* attached before (leading) or after (trailing) the token at pos; ns is   *)
(* the namespace MACRO_REGEX captures, "" when the text holds no macro.    *)
(***************************************************************************)
Comment(pos, where, ns, node) == [pos |-> pos, where |-> where, ns |-> ns, node |-> node]

\* MacroParser::parse_macro
parse_macro(namespace, c) == c.ns # "" /\ c.ns = namespace

Bucket(namespace, cs, where, p) ==
  LET hit == SelectSeq(cs, LAMBDA c : c.where = where /\ c.pos = p /\ parse_macro(namespace, c))
  IN [i \in 1..Len(hit) |-> Macro(hit[i].pos, hit[i].node)]

RECURSIVE Buckets(_, _, _, _)
Buckets(namespace, cs, where, order) ==
  IF order = <<>> THEN <<>>
  ELSE Bucket(namespace, cs, where, Head(order)) \o Buckets(namespace, cs, where, Tail(order))

Positions(cs, where) == {cs[i].pos : i \in {k \in 1..Len(cs) : cs[k].where = where}}

\* The orders in which a hash map may hand out its keys.
Orders(S) == {f \in [1..Cardinality(S) -> S] : \A i, j \in 1..Cardinality(S) : i # j => f[i] # f[j]}

\* The comments MacroParser::parse leaves in the stream (retain).
RetainedComments(namespace, cs) == SelectSeq(cs, LAMBDA c : ~parse_macro(namespace, c))

\* The macros MacroParser::parse returns: leading buckets, then trailing ones.
ParsedMacros(namespace, cs, lorder, torder) ==
  Buckets(namespace, cs, "leading", lorder) \o Buckets(namespace, cs, "trailing", torder)

(***************************************************************************)
(* WebpackModuleGraph (webpack_module_graph.rs).  modules maps a module ID *)
(* to the IDs its body loads; IDs are the canonical strings of the keys.   *)
(***************************************************************************)
NewGraph == [modules |-> <<>>, entry_modules |-> {}, reachable_modules |-> {}]

KeysOf(mods) == {mods[i].key : i \in 1..Len(mods)}
BodyIds(body) == {body[i].id : i \in 1..Len(body)}
BodyIdsOfKind(body, kind) == {body[i].id : i \in {k \in 1..Len(body) : body[k].kind = kind}}
FnCount(mods) == Cardinality({i \in 1..Len(mods) : mods[i].fn})

\* ModuleExtractor::looks_like_webpack_modules: the 60 % heuristic.
looks_like_webpack_modules(mods) ==
  /\ Len(mods) # 0
  /\ FnCount(mods) > 0
  /\ 10 * FnCount(mods) >= 6 * Len(mods)

ObjectsOf(prog) == {i \in 1..Len(prog.body) : prog.body[i].kind \in ObjectKinds}
ModuleObjectsOf(prog) ==
  {i \in ObjectsOf(prog) : looks_like_webpack_modules(prog.body[i].mods)}

\* extract_module_definitions: the object bound to __webpack_modules__ and
\* every object literal that passes the heuristic.
ExtractedIds(prog) ==
  UNION {KeysOf(prog.body[i].mods) :
           i \in {k \in ObjectsOf(prog) :
                    prog.body[k].kind = "table" \/ k \in ModuleObjectsOf(prog)}}

\* analyze_module_dependencies: every load call in the body of a property of
\* an object literal that passes the heuristic.
DependenciesOf(prog, id) ==
  UNION {BodyIds(prog.body[i].mods[j].body) :
           <<i, j>> \in {<<a, b>> \in ObjectsOf(prog) \X (1..8) :
                           /\ a \in ModuleObjectsOf(prog)
                           /\ b \in 1..Len(prog.body[a].mods)
                           /\ prog.body[a].mods[b].key = id}}

TopLevelLoads(prog) ==
  {prog.body[i].id : i \in {k \in 1..Len(prog.body) :
                              prog.body[k].kind \in {"load", "declload", "nested"}}}

\* Load calls in function bodies of object literals that fail the heuristic
\* are visited with in_webpack_modules = false.
LoadsOutsideModules(prog) ==
  UNION {BodyIds(prog.body[i].mods[j].body) :
           <<i, j>> \in {<<a, b>> \in ObjectsOf(prog) \X (1..8) :
                           /\ a \notin ModuleObjectsOf(prog)
                           /\ b \in 1..Len(prog.body[a].mods)}}

\* identify_entry_points
EntryPoints(prog) == TopLevelLoads(prog) \cup LoadsOutsideModules(prog)

RECURSIVE SetToSeq(_)
SetToSeq(S) ==
  IF S = {} THEN <<>> ELSE LET x == CHOOSE y \in S : TRUE IN <<x>> \o SetToSeq(S \ {x})

\* The depth-first search of calculate_reachable_modules.
RECURSIVE Dfs(_, _, _)
Dfs(modules, stack, visited) ==
  IF stack = <<>> THEN visited
  ELSE LET current == stack[Len(stack)]
           rest == SubSeq(stack, 1, Len(stack) - 1)
       IN IF current \in visited THEN Dfs(modules, rest, visited)
          ELSE LET seen == visited \cup {current}
                   deps == IF current \in DOMAIN modules
                           THEN {d \in modules[current] : d \notin seen /\ d \in DOMAIN modules}
                           ELSE {}
               IN Dfs(modules, rest \o SetToSeq(deps), seen)

calculate_reachable_modules(modules, entry_modules) ==
  Dfs(modules, SetToSeq(entry_modules), {})

\* hydrate_module_graph_from_chunk on the graph g: nothing of g is cleared.
\* These are steps 1 to 5; execution_order, which step 6 computes and only
\* the log reads, is calculate_execution_order below.
hydrate_module_graph_from_chunk(g, prog) ==
  LET extracted == ExtractedIds(prog)
      modules == [id \in (DOMAIN g.modules) \cup extracted |->
                    IF id \in extracted THEN DependenciesOf(prog, id) ELSE g.modules[id]]
      entries == g.entry_modules \cup EntryPoints(prog)
  IN [modules |-> modules,
      entry_modules |-> entries,
      reachable_modules |->
        g.reachable_modules \cup calculate_reachable_modules(modules, entries)]

\* The orders in which a hash set or hash map may hand out the elements of S.
RECURSIVE IterationOrders(_)
IterationOrders(S) ==
  IF S = {} THEN {<<>>}
  ELSE UNION {{<<x>> \o rest : rest \in IterationOrders(S \ {x})} : x \in S}

\* The loop of calculate_execution_order: pop the last module of the queue,
\* append it to the order, take one from the in-degree of each of its
\* dependents and push those that reach zero.
RECURSIVE TopologicalSort(_, _, _, _)
TopologicalSort(g, queue, in_degree, order) ==
  IF queue = <<>> THEN {order}
  ELSE LET module_id == queue[Len(queue)]
           dependents == {d \in g.reachable_modules \cap DOMAIN g.modules :
                            module_id \in g.modules[d]}
           degree == [d \in DOMAIN in_degree |->
                        IF d \in dependents THEN in_degree[d] - 1 ELSE in_degree[d]]
           ready == {d \in dependents : degree[d] = 0}
       IN UNION {TopologicalSort(g, SubSeq(queue, 1, Len(queue) - 1) \o pushed, degree,
                                 Append(order, module_id)) :
                   pushed \in IterationOrders(ready)}

\* WebpackModuleGraph::calculate_execution_order on the hydrated graph g:
\* the values execution_order can get, one for each iteration order of the
\* hash containers.
calculate_execution_order(g) ==
  LET in_degree == [id \in g.reachable_modules |->
                      IF id \in DOMAIN g.modules
                      THEN Cardinality(g.modules[id] \cap g.reachable_modules) ELSE 0]
      zero == {id \in g.reachable_modules : in_degree[id] = 0}
  IN UNION {TopologicalSort(g, queue, in_degree, <<>>) : queue \in IterationOrders(zero)}

\* WebpackModuleGraph::get_unused_modules
get_unused_modules(g) == (DOMAIN g.modules) \ g.reachable_modules

BareLoadsOf(prog) ==
  {prog.body[i].id : i \in {k \in 1..Len(prog.body) : prog.body[k].kind = "load"}}
  \cup UNION {BodyIdsOfKind(prog.body[i].mods[j].body, "load") :
                <<i, j>> \in {<<a, b>> \in ObjectsOf(prog) \X (1..8) :
                                b \in 1..Len(prog.body[a].mods)}}

get_unused_requires_any(g, prog) == BareLoadsOf(prog)

\* WebpackModuleGraph::get_unused_requires: bare load statements down to
\* depth 2, which is the body of a function in a top-level statement.
get_unused_requires(g, prog) == BareLoadsOf(prog) \ g.reachable_modules

(***************************************************************************)
(* WebpackModuleTreeShaker (webpack_tree_shaker.rs).                       *)
(***************************************************************************)
\* AssignmentAnalyzer: the IDs loaded by a declarator initializer anywhere.
AssignmentRequired(prog) ==
  {prog.body[i].id : i \in {k \in 1..Len(prog.body) : prog.body[k].kind = "declload"}}
  \cup UNION {BodyIdsOfKind(prog.body[i].mods[j].body, "declload") :
                <<i, j>> \in {<<a, b>> \in ObjectsOf(prog) \X (1..8) :
                                b \in 1..Len(prog.body[a].mods)}}

get_all_unused_modules(prog, unused_modules) == unused_modules

get_safely_removable_modules(prog, unused_modules) ==
  unused_modules \ AssignmentRequired(prog)

\* ContentRemover::visit_mut_stmts that drops every statement that loads an
\* unused ID.
RetainBodyAnyKind(body, unused_requires) ==
  SelectSeq(body, LAMBDA b : b.id \notin unused_requires)

\* ContentRemover::visit_mut_stmts on the body of a function.
RetainBody(body, unused_requires) ==
  SelectSeq(body, LAMBDA b : ~(b.kind = "load" /\ b.id \in unused_requires))

\* ContentRemover::visit_mut_object_lit, then the bodies of what is kept.
RetainProps(mods, unused_modules, unused_requires) ==
  LET kept == SelectSeq(mods, LAMBDA m : m.key \notin unused_modules)
  IN [j \in 1..Len(kept) |-> [kept[j] EXCEPT !.body = RetainBody(@, unused_requires)]]

\* WebpackModuleTreeShaker::remove_unused_content
remove_unused_content(prog, unused_modules, unused_requires) ==
  LET top == IF prog.is_module THEN prog.body
             ELSE SelectSeq(prog.body,
                            LAMBDA s : ~(s.kind = "load" /\ s.id \in unused_requires))
  IN [prog EXCEPT !.body =
        [i \in 1..Len(top) |->
           IF top[i].kind \in ObjectKinds
           THEN [top[i] EXCEPT !.mods = RetainProps(@, unused_modules, unused_requires)]
           ELSE top[i]]]

\* process_with_module_graph
process_with_module_graph(prog, g) ==
  remove_unused_content(prog,
                        get_safely_removable_modules(prog, get_unused_modules(g)),
                        get_unused_requires(g, prog))

\* perform_webpack_tree_shaking: a fresh graph, then the shaker.
perform_webpack_tree_shaking(prog) ==
  process_with_module_graph(prog, hydrate_module_graph_from_chunk(NewGraph, prog))

(***************************************************************************)
(* The optimise entry points (swc_macro_wasm).  A source is the text       *)
(* handed in: whether the parser accepts it, whether the text holds        *)
(* __webpack_modules__ or __webpack_require__ or more than 1000            *)
(* characters, and the program and comments the parser yields.  An output  *)
(* is what the caller gets back: the source text itself ("source"), the    *)
(* text the emitter prints for a program and its comments ("printed"), or  *)
(* a panic.                                                                *)
(***************************************************************************)
Program(is_module, body) == [is_module |-> is_module, body |-> body]
Source(parses, webpack, program, comments) ==
  [parses |-> parses, webpack |-> webpack, program |-> program, comments |-> comments]
Output(kind, program, comments) ==
  [kind |-> kind, program |-> program, comments |-> comments]
NoProgram == Program(FALSE, <<>>)
NoOutput == Output("none", NoProgram, <<>>)
PanicParse == "parse_program unwrap"
MutationTracker(unreachable_modules, eliminated_imports) ==
  [unreachable_modules |-> unreachable_modules, eliminated_imports |-> eliminated_imports]
NewTracker == MutationTracker({}, {})

FeatureEntries(config) ==
  LET f == JGet(config, "features") IN IF f.k = "object" THEN f.f ELSE <<>>

\* The keys of config.features whose value is the boolean true.
EnabledFeatures(config) ==
  {FeatureEntries(config)[i].key :
     i \in {k \in 1..Len(FeatureEntries(config)) : FeatureEntries(config)[k].val = JBool(TRUE)}}

\* lib.rs should_skip_all_transformations(config, macros)
wasm_should_skip_all_transformations(config) ==
  /\ JGet(config, "features").k = "object"
  /\ {FeatureEntries(config)[i].key : i \in 1..Len(FeatureEntries(config))}
       = EnabledFeatures(config)

\* feature_analyzer::extract_config_values_simple: the values at the top
\* level and the direct children of top-level objects.
extract_config_values_simple(config) ==
  IF config.k # "object" THEN {}
  ELSE {config.f[i].val : i \in 1..Len(config.f)}
       \cup UNION {{config.f[i].val.f[j].val : j \in 1..Len(config.f[i].val.f)} :
                     i \in {k \in 1..Len(config.f) : config.f[k].val.k = "object"}}

\* feature_analyzer::should_skip_all_transformations(config)
should_skip_all_transformations(config) ==
  /\ extract_config_values_simple(config) # {}
  /\ \A v \in extract_config_values_simple(config) : is_value_truthy(v)

\* analyze_variable_usage: the (module ID, variable) pairs of the
\* declarators initialised by a load call; every declarator binds a name of
\* its own, written as the place of the declarator.
ImportVariables(prog) ==
  {[id |-> prog.body[i].id, var |-> <<prog.body[i].lo, 0, 0>>] :
     i \in {k \in 1..Len(prog.body) : prog.body[k].kind = "declload"}}
  \cup {[id |-> prog.body[x[1]].mods[x[2]].body[x[3]].id,
         var |-> <<prog.body[x[1]].lo, x[2], x[3]>>] :
          x \in {y \in ObjectsOf(prog) \X (1..8) \X (1..8) :
                   /\ y[2] \in 1..Len(prog.body[y[1]].mods)
                   /\ y[3] \in 1..Len(prog.body[y[1]].mods[y[2]].body)
                   /\ prog.body[y[1]].mods[y[2]].body[y[3]].kind = "declload"}}

\* track_eliminated_dependencies
track_eliminated_dependencies(before, after, tracker) ==
  LET eliminated == {p.id : p \in before \ after}
  IN MutationTracker(
       tracker.unreachable_modules
         \cup {id \in eliminated : ~\E p \in after : p.id = id},
       tracker.eliminated_imports \cup eliminated)

FeatureAModules == {"153", "78", "418"}
FeatureBModules == {"722", "803", "812"}
DebugModeModules == {"422"}

\* analyze_conditional_span_dependencies: the fixed feature-to-module table.
analyze_conditional_span_dependencies(config, tracker) ==
  [tracker EXCEPT !.unreachable_modules =
     @ \cup (IF "enableFeatureA" \in EnabledFeatures(config) THEN {} ELSE FeatureAModules)
       \cup (IF "enableFeatureB" \in EnabledFeatures(config) THEN {} ELSE FeatureBModules)
       \cup (IF "enableDebugMode" \in EnabledFeatures(config) THEN {} ELSE DebugModeModules)]

\* What swc's dce pass may drop at the top level: empty statements, pure
\* expression statements and declarations of unused variables without side
\* effects.  Load calls are kept, and so are the objects, which the rest of
\* the bundle refers to.
DceMayDrop(s) ==
  \/ s.kind \in {"empty", "decl"}
  \/ s.kind = "expr" /\ s.expr # Orig

\* The results dce can have: any choice among the statements it may drop.
DceResults(prog) ==
  {[prog EXCEPT !.body = SelectSeq(prog.body, LAMBDA s : s.lo \notin dropped \/ ~DceMayDrop(s))] :
     dropped \in SUBSET {prog.body[i].lo : i \in {k \in 1..Len(prog.body) : DceMayDrop(prog.body[k])}}}

\* apply_mutation_insights_to_graph
apply_mutation_insights_to_graph(g, tracker) ==
  LET kept1 == (DOMAIN g.modules) \ tracker.unreachable_modules
      still_referenced(id) ==
        \/ \E m \in kept1 : id \in g.modules[m]
        \/ id \in g.entry_modules
      kept2 == {m \in kept1 : m \in tracker.eliminated_imports => still_referenced(m)}
  IN [g EXCEPT !.modules = [m \in kept2 |-> g.modules[m]]]

\* remove_unreachable_webpack_modules: every object literal loses the
\* properties whose key is marked unreachable.
remove_unreachable_webpack_modules(prog, tracker) ==
  [prog EXCEPT !.body =
     [i \in 1..Len(prog.body) |->
        IF prog.body[i].kind \in ObjectKinds
        THEN [prog.body[i] EXCEPT !.mods =
                SelectSeq(@, LAMBDA m : m.key \notin tracker.unreachable_modules)]
        ELSE prog.body[i]]]

\* perform_post_conditional_cleanup: the imports whose variable no
\* identifier names.  visit_ident sees the binding identifier of the
\* declarator itself, so every import variable counts as used.
perform_post_conditional_cleanup(prog) ==
  LET variable_usage == {p.var : p \in ImportVariables(prog)}
      unused_modules == {p.id : p \in {q \in ImportVariables(prog) : q.var \notin variable_usage}}
      top == IF prog.is_module THEN prog.body
             ELSE SelectSeq(prog.body,
                            LAMBDA s : ~(s.kind \in {"load", "declload"} /\ s.id \in unused_modules))
  IN [prog EXCEPT !.body =
        [i \in 1..Len(top) |->
           IF top[i].kind \in ObjectKinds
           THEN [top[i] EXCEPT !.mods =
                   [j \in 1..Len(top[i].mods) |->
                      [top[i].mods[j] EXCEPT !.body =
                         SelectSeq(@, LAMBDA b : ~(b.kind \in {"load", "declload"}
                                                   /\ b.id \in unused_modules))]]]
           ELSE top[i]]]

\* perform_final_transformations_with_mutations
perform_final_transformations_with_mutations(prog, tracker) ==
  LET removed == remove_unreachable_webpack_modules(prog, tracker)
      shaken == IF tracker.unreachable_modules # {}
                THEN perform_webpack_tree_shaking(removed)
                ELSE removed
  IN perform_post_conditional_cleanup(shaken)

\* optimize.rs has_conditional_macros: the parse takes the macros out of the
\* comment stream it is handed.
has_conditional_macros(cs, lorder, torder) ==
  [found |-> ParsedMacros("common", cs, lorder, torder) # <<>>,
   comments |-> RetainedComments("common", cs)]

(***************************************************************************)
(* The webpack_graph crate: ModuleGraph (graph.rs), TreeShaker             *)
(* (tree_shaker.rs) and WebpackBundleParser (parser.rs).  modules maps a   *)
(* module ID to its node; entry_points is a Vec without duplicates.        *)
(***************************************************************************)
ModuleNode(id, module_source, dependencies, dependents) ==
  [id |-> id, source |-> module_source,
   dependencies |-> dependencies, dependents |-> dependents]
ModuleGraph(modules, entry_points) == [modules |-> modules, entry_points |-> entry_points]
NewModuleGraph == ModuleGraph(<<>>, <<>>)

Range(seq) == {seq[i] : i \in 1..Len(seq)}

\* ModuleGraph::add_module: an existing node of the same ID is replaced.
add_module(g, node) ==
  ModuleGraph([id \in (DOMAIN g.modules) \cup {node.id} |->
                 IF id = node.id THEN node ELSE g.modules[id]],
              g.entry_points)

\* ModuleGraph::add_dependency with only its first half.
add_dependency_forward_only(g, from, to) ==
  ModuleGraph([id \in DOMAIN g.modules |->
                 IF id = from
                 THEN [g.modules[id] EXCEPT !.dependencies = @ \cup {to}]
                 ELSE g.modules[id]],
              g.entry_points)

\* ModuleGraph::add_dependency: each side is written only when its module exists.
add_dependency(g, from, to) ==
  ModuleGraph([id \in DOMAIN g.modules |->
                 LET node == g.modules[id]
                     fwd == IF id = from
                            THEN [node EXCEPT !.dependencies = @ \cup {to}]
                            ELSE node
                 IN IF id = to
                    THEN [fwd EXCEPT !.dependents = @ \cup {from}]
                    ELSE fwd],
              g.entry_points)

\* ModuleGraph::add_entry_point
add_entry_point(g, module_id) ==
  IF module_id \in Range(g.entry_points) THEN g
  ELSE ModuleGraph(g.modules, Append(g.entry_points, module_id))

\* The breadth-first search of get_reachable_modules: an ID is inserted
\* whether or not the graph has a module of that ID.
RECURSIVE Bfs(_, _, _)
Bfs(g, queue, reachable) ==
  IF queue = <<>> THEN reachable
  ELSE LET current_id == Head(queue)
           fresh == IF current_id \in DOMAIN g.modules
                    THEN g.modules[current_id].dependencies \ reachable
                    ELSE {}
       IN Bfs(g, Tail(queue) \o SetToSeq(fresh), reachable \cup fresh)

\* get_reachable_modules that stops at the entry points.
get_reachable_modules_entries_only(g) == Range(g.entry_points)

\* ModuleGraph::get_reachable_modules
get_reachable_modules(g) == Bfs(g, g.entry_points, Range(g.entry_points))

\* ModuleGraph::get_unreachable_modules (the Vec taken as a set)
get_unreachable_modules(g) == (DOMAIN g.modules) \ get_reachable_modules(g)

\* Vec::retain(|id| id != module_id)
RetainOthers(seq, module_id) == SelectSeq(seq, LAMBDA id : id # module_id)

\* TreeShaker::remove_module that leaves the entry list alone.
remove_module_keep_entry(g, module_id) ==
  IF module_id \in DOMAIN g.modules
  THEN [graph |-> ModuleGraph(
                    [id \in (DOMAIN g.modules) \ {module_id} |->
                       [g.modules[id] EXCEPT !.dependencies = @ \ {module_id},
                                             !.dependents = @ \ {module_id}]],
                    g.entry_points),
        removed |-> TRUE]
  ELSE [graph |-> g, removed |-> FALSE]

\* TreeShaker::remove_module: the graph afterwards and the value returned.
remove_module(g, module_id) ==
  IF module_id \in DOMAIN g.modules
  THEN LET removed_module == g.modules[module_id]
       IN [graph |-> ModuleGraph(
                       [id \in (DOMAIN g.modules) \ {module_id} |->
                          LET node == g.modules[id]
                              a == IF id \in removed_module.dependencies
                                   THEN [node EXCEPT !.dependents = @ \ {module_id}]
                                   ELSE node
                          IN IF id \in removed_module.dependents
                             THEN [a EXCEPT !.dependencies = @ \ {module_id}]
                             ELSE a],
                       RetainOthers(g.entry_points, module_id)),
           removed |-> TRUE]
  ELSE [graph |-> g, removed |-> FALSE]

RECURSIVE RemoveAll(_, _)
RemoveAll(g, ids) ==
  IF ids = <<>> THEN g ELSE RemoveAll(remove_module(g, Head(ids)).graph, Tail(ids))

\* TreeShaker::shake that removes only the modules nothing depends on.
shake_leaves_only(g) ==
  LET unreachable_ids == get_unreachable_modules(g)
  IN [graph |-> RemoveAll(g, SetToSeq({id \in unreachable_ids :
                                         g.modules[id].dependents = {}})),
      removed |-> unreachable_ids]

\* TreeShaker::shake: the graph afterwards and the IDs returned.
shake(g) ==
  LET unreachable_ids == get_unreachable_modules(g)
  IN [graph |-> RemoveAll(g, SetToSeq(unreachable_ids)), removed |-> unreachable_ids]

\* extract_require_calls_from_stmt / _from_expr: the load calls of a module
\* function found in an expression statement, in the arguments of a call
\* statement, or in the initialiser of a variable declaration; a call
\* anywhere else in the body, such as under an if, is not looked at.
ExtractedKinds == {"load", "declload", "nested"}
extract_require_calls_from_expr(def) ==
  IF def.fn
  THEN {def.body[i].id : i \in {k \in 1..Len(def.body) : def.body[k].kind \in ExtractedKinds}}
  ELSE {}

\* WebpackVisitor: the properties of every object bound to
\* __webpack_modules__, a later property of the same key replacing an
\* earlier one.
TablesOf(prog) == {i \in 1..Len(prog.body) : prog.body[i].kind = "table"}
webpack_modules(prog) ==
  LET keys == UNION {KeysOf(prog.body[i].mods) : i \in TablesOf(prog)}
      places(key) == {<<i, j>> \in TablesOf(prog) \X (1..8) :
                        /\ j \in 1..Len(prog.body[i].mods)
                        /\ prog.body[i].mods[j].key = key}
      last(key) == CHOOSE p \in places(key) :
                     \A q \in places(key) : q[1] < p[1] \/ (q[1] = p[1] /\ q[2] <= p[2])
  IN [key \in keys |->
        extract_require_calls_from_expr(prog.body[last(key)[1]].mods[last(key)[2]])]

\* WebpackVisitor::visit_call_expr: the load calls whose span is not inside
\* the span of the __webpack_modules__ statement, in source order.
RECURSIVE Dedup(_)
Dedup(seq) ==
  IF seq = <<>> THEN <<>>
  ELSE LET init == Dedup(SubSeq(seq, 1, Len(seq) - 1))
           x == seq[Len(seq)]
       IN IF x \in Range(init) THEN init ELSE Append(init, x)

RECURSIVE BodyLoads(_)
BodyLoads(body) ==
  IF body = <<>> THEN <<>> ELSE <<Head(body).id>> \o BodyLoads(Tail(body))

RECURSIVE PropLoads(_)
PropLoads(mods) ==
  IF mods = <<>> THEN <<>> ELSE BodyLoads(Head(mods).body) \o PropLoads(Tail(mods))

RECURSIVE CallsOutside(_)
CallsOutside(body) ==
  IF body = <<>> THEN <<>>
  ELSE LET s == Head(body)
           here == IF s.kind \in {"load", "declload", "nested"} THEN <<s.id>>
                   ELSE IF s.kind = "object" THEN PropLoads(s.mods)
                   ELSE <<>>
       IN here \o CallsOutside(Tail(body))

visitor_entry_points_any_span(prog) ==
  Dedup(CallsOutside(prog.body)
        \o SetToSeq(UNION {Range(PropLoads(prog.body[i].mods)) : i \in TablesOf(prog)}))

visitor_entry_points(prog) == Dedup(CallsOutside(prog.body))

ParseError == "ParseError"
InvalidBundleFormat == "InvalidBundleFormat"
NoError == "Ok"

RECURSIVE AddModules(_, _, _)
AddModules(g, found, ids) ==
  IF ids = <<>> THEN g
  ELSE AddModules(add_module(g, ModuleNode(Head(ids), found[Head(ids)], found[Head(ids)], {})),
                  found, Tail(ids))

RECURSIVE AddDependencies(_, _)
AddDependencies(g, edges) ==
  IF edges = <<>> THEN g
  ELSE AddDependencies(add_dependency(g, Head(edges)[1], Head(edges)[2]), Tail(edges))

RECURSIVE AddEntryPoints(_, _)
AddEntryPoints(g, ids) ==
  IF ids = <<>> THEN g
  ELSE AddEntryPoints(IF Head(ids) \in DOMAIN g.modules
                      THEN add_entry_point(g, Head(ids)) ELSE g,
                      Tail(ids))

\* WebpackBundleParser::parse_bundle: Ok(graph) or the error.
parse_bundle(src) ==
  IF ~src.parses THEN [error |-> ParseError, graph |-> NewModuleGraph]
  ELSE LET found == webpack_modules(src.program)
       IN IF DOMAIN found = {}
          THEN [error |-> InvalidBundleFormat, graph |-> NewModuleGraph]
          ELSE LET added == AddModules(NewModuleGraph, found, SetToSeq(DOMAIN found))
                   edges == {<<id, dep>> \in (DOMAIN found) \X (UNION {found[k] : k \in DOMAIN found}) :
                               dep \in added.modules[id].dependencies}
                   linked == AddDependencies(added, SetToSeq(edges))
                   graph == AddEntryPoints(linked, visitor_entry_points(src.program))
               IN IF graph.entry_points = <<>>
                  THEN [error |-> InvalidBundleFormat, graph |-> NewModuleGraph]
                  ELSE [error |-> NoError, graph |-> graph]

(***************************************************************************)
(* State.                                                                  *)
(***************************************************************************)
VARIABLES
  meta_data,          \* the metadata document handed to condition_transform
  macros,             \* Vec<(BytePos, MacroNode)>
  pc,                 \* the position of the pass
  if_stack,           \* the stack of open if directives
  directives,         \* Vec<Directive>
  remove_list,        \* RemoveReplaceTransformer::remove_list
  replace_expr_list,  \* RemoveReplaceTransformer::replace_expr_list
  panic,              \* the message of the expect or unwrap that ended the pass, if any
  entry,              \* the function that was called
  source,             \* the source text handed to an entry point
  program,            \* the Program being transformed
  comments,           \* the SingleThreadedComments of the parse
  module_graph,       \* the WebpackModuleGraph of the run
  mutation_tracker,   \* the MutationTracker of wasm optimize
  out                 \* what the entry point returned

vars == <<meta_data, macros, pc, if_stack, directives, remove_list,
          replace_expr_list, panic, entry, source, program, comments,
          module_graph, mutation_tracker, out>>

pipeline_vars == <<entry, source, program, comments, module_graph, mutation_tracker, out>>

(***************************************************************************)
(* Inputs of the directive scanner.                                        *)
(***************************************************************************)
PathA == <<"a">>
PathAB == <<"a", "b">>
IfNode(c) == MacroNode("if", Attrs(TRUE, c, FALSE, <<>>, FALSE, ""))
EndifNode == MacroNode("endif", NoAttrs)
DefineNode(v) == MacroNode("define-inline", Attrs(FALSE, <<>>, TRUE, v, FALSE, ""))
DefineDefaultNode(v, d) == MacroNode("define-inline", Attrs(FALSE, <<>>, TRUE, v, TRUE, d))

PairNodes == {IfNode(PathA), IfNode(PathAB), EndifNode, DefineNode(PathA)}

ScanNodes ==
  PairNodes \cup {MacroNode("if", NoAttrs), MacroNode("define-inline", NoAttrs),
                  MacroNode("else", NoAttrs)}

PairMacros == {Macro(p, n) : p \in 1..MaxPos, n \in PairNodes}

ScanMacros == {Macro(p, n) : p \in 1..MaxPos, n \in ScanNodes}

ScanLists ==
  UNION {[1..n -> PairMacros] : n \in 0..MaxMacros}
  \cup UNION {[1..n -> ScanMacros] : n \in 1..2}

ScanDocs == {JObj(<<JEntry("a", JBool(TRUE))>>),
             JObj(<<JEntry("a", JObj(<<JEntry("b", JBool(TRUE))>>))>>)}

Leaves == {JNull, JBool(TRUE), JBool(FALSE), JNum(0), JNum(42), JStr(""), JStr("s"),
           JArr(<<>>), JArr(<<JNum(1), JNull>>), JObj(<<>>)}

MetaDocs ==
  {JObj(<<>>), JNull, JBool(TRUE), JArr(<<JBool(TRUE)>>)}
  \cup {JObj(<<JEntry("a", x)>>) : x \in Leaves}
  \cup {JObj(<<JEntry("a", JObj(<<JEntry("b", x)>>))>>) : x \in Leaves}
  \cup {JObj(<<JEntry("b", JBool(TRUE)), JEntry("a", JObj(<<JEntry("c", JNum(1)), JEntry("b", JStr("s"))>>))>>)}

EvalDefines ==
  {DefineNode(v) : v \in {PathA, PathAB}}
  \cup {DefineDefaultNode(v, d) : v \in {PathA, PathAB}, d \in {"", "d"}}

EvalLists ==
  {<<Macro(1, IfNode(c)), Macro(3, EndifNode)>> : c \in {PathA, PathAB}}
  \cup {<<Macro(2, n)>> : n \in EvalDefines}
  \cup {<<Macro(2, n), Macro(1, IfNode(c)), Macro(3, EndifNode)>> :
          n \in EvalDefines, c \in {PathA, PathAB}}
  \cup {<<Macro(1, n), Macro(2, DefineDefaultNode(PathAB, "d")), Macro(3, DefineNode(PathA))>> :
          n \in EvalDefines}

(***************************************************************************)
(* The directive scanner and the preparation of the transformer:           *)
(* condition_transform run on its own.                                     *)
(***************************************************************************)
InitD ==
  /\ \/ meta_data \in ScanDocs /\ macros \in ScanLists
     \/ meta_data \in MetaDocs /\ macros \in EvalLists
  /\ pc = "start"
  /\ if_stack = <<>>
  /\ directives = <<>>
  /\ remove_list = {}
  /\ replace_expr_list = <<>>
  /\ panic = NoPanic
  /\ entry = "condition_transform"
  /\ source = Source(TRUE, FALSE, NoProgram, <<>>)
  /\ program = NoProgram
  /\ comments = <<>>
  /\ module_graph = NewGraph
  /\ mutation_tracker = NewTracker
  /\ out = NoOutput

\* lib.rs 28-61: sort the macros and pair them into directives.
Scan ==
  /\ entry = "condition_transform"
  /\ pc = "start"
  /\ LET r == ParseDirectives(macros) IN
     /\ macros' = sort_by_key(macros)
     /\ if_stack' = r.if_stack
     /\ directives' = r.directives
     /\ panic' = r.panic
     /\ pc' = IF r.panic = NoPanic THEN "scanned" ELSE "panicked"
  /\ UNCHANGED <<meta_data, remove_list, replace_expr_list>>
  /\ UNCHANGED pipeline_vars

\* lib.rs 63-95: evaluate the directives and build the transformer.
Evaluate ==
  /\ entry = "condition_transform"
  /\ pc = "scanned"
  /\ LET r == EvaluateDirectives(meta_data, directives) IN
     /\ remove_list' = r.remove_list
     /\ replace_expr_list' = r.replace_expr_list
     /\ panic' = r.panic
     /\ pc' = IF r.panic = NoPanic THEN "built" ELSE "panicked"
  /\ UNCHANGED <<meta_data, macros, if_stack, directives>>
  /\ UNCHANGED pipeline_vars

NextD == Scan \/ Evaluate

SpecD == InitD /\ [][NextD]_vars

(***************************************************************************)
(* Bundles handed to the tree shaker: one object literal of three          *)
(* properties, bound to __webpack_modules__ or to another name, followed   *)
(* by a statement that loads a module and possibly a bare load or an       *)
(* object literal of another shape.                                        *)
(***************************************************************************)
ModuleIds == <<"100", "153", "300">>
ExternalId == "999"

BodyChoices ==
  {<<>>, <<BodyStmt("load", "153")>>, <<BodyStmt("declload", "300")>>,
   <<BodyStmt("load", "300")>>, <<BodyStmt("load", ExternalId)>>}

FnChoices == {<<TRUE, TRUE, TRUE>>, <<TRUE, FALSE, TRUE>>, <<FALSE, FALSE, TRUE>>}

ModuleTables ==
  {[j \in 1..3 |-> ModuleDef(ModuleIds[j], fns[j], IF fns[j] THEN bodies[j] ELSE <<>>)] :
     fns \in FnChoices, bodies \in [1..3 -> BodyChoices]}

ObjectStmt(kind, mods) == Stmt(kind, 10, 19, "", Orig, mods)
LoadStmt(kind, lo, id) == Stmt(kind, lo, lo + 9, id, Orig, <<>>)

\* var o = {300: 1, 7: 2}: an object literal that is no modules table.
PlainObject ==
  Stmt("object", 40, 49, "", Orig, <<ModuleDef("300", FALSE, <<>>), ModuleDef("7", FALSE, <<>>)>>)

ShakeBodies ==
  {<<ObjectStmt(kind, mods), LoadStmt(lk, 20, id)>> \o tail :
     kind \in ObjectKinds, mods \in ModuleTables,
     lk \in {"load", "declload", "nested"}, id \in {"100", ExternalId},
     tail \in {<<>>, <<LoadStmt("load", 30, "300")>>, <<PlainObject>>}}

ShakeSources ==
  {Source(TRUE, TRUE, Program(m, b), <<>>) : m \in BOOLEAN, b \in ShakeBodies}

InitS ==
  /\ entry = "perform_webpack_tree_shaking"
  /\ source \in ShakeSources
  /\ program = source.program
  /\ pc = "call"
  /\ meta_data = JObj(<<>>)
  /\ macros = <<>>
  /\ if_stack = <<>>
  /\ directives = <<>>
  /\ remove_list = {}
  /\ replace_expr_list = <<>>
  /\ panic = NoPanic
  /\ comments = <<>>
  /\ module_graph = NewGraph
  /\ mutation_tracker = NewTracker
  /\ out = NoOutput

\* webpack_tree_shaker.rs 499-527: perform_webpack_tree_shaking(&mut program)
Shake ==
  /\ entry = "perform_webpack_tree_shaking"
  /\ pc = "call"
  /\ module_graph' = hydrate_module_graph_from_chunk(NewGraph, program)
  /\ program' = perform_webpack_tree_shaking(program)
  /\ pc' = "done"
  /\ UNCHANGED <<meta_data, macros, if_stack, directives, remove_list,
                 replace_expr_list, panic, entry, source, comments,
                 mutation_tracker, out>>

\* perform_webpack_tree_shaking called once more, on the tree the first call
\* left.
ShakeAgain ==
  /\ entry = "perform_webpack_tree_shaking"
  /\ pc = "done"
  /\ module_graph' = hydrate_module_graph_from_chunk(NewGraph, program)
  /\ program' = perform_webpack_tree_shaking(program)
  /\ pc' = "again"
  /\ UNCHANGED <<meta_data, macros, if_stack, directives, remove_list,
                 replace_expr_list, panic, entry, source, comments,
                 mutation_tracker, out>>

NextS == Shake \/ ShakeAgain

SpecS == InitS /\ [][NextS]_vars

(***************************************************************************)
(* Inputs of the optimise entry points: annotated sources of three         *)
(* statements, small bundles whose last load may be guarded, sources the   *)
(* parser rejects, and configurations with and without a features object.  *)
(***************************************************************************)
PathF == <<"features", "f">>
PathV == <<"v">>
PathW == <<"w">>
CondPaths == {PathAB, PathF}

Leading(pos, node) == Comment(pos, "leading", "common", node)
Trailing(pos, node) == Comment(pos, "trailing", "common", node)

PlainBody ==
  <<Stmt("expr", 10, 19, "", Orig, <<>>), Stmt("decl", 20, 29, "", Orig, <<>>),
    Stmt("expr", 30, 39, "", Orig, <<>>)>>

GuardFirst(c) == <<Leading(10, IfNode(c)), Leading(20, EndifNode)>>
GuardSecond(c) == <<Trailing(29, EndifNode), Leading(20, IfNode(c))>>
GuardInit(c) == <<Leading(25, IfNode(c)), Leading(30, EndifNode)>>

WellFormedComments ==
  {<<>>,
   <<Leading(25, DefineNode(PathV))>>,
   <<Leading(25, DefineDefaultNode(PathV, "d"))>>,
   <<Leading(25, DefineDefaultNode(PathW, "d"))>>,
   <<Comment(10, "leading", "other", IfNode(PathAB)),
     Comment(20, "leading", "other", EndifNode)>>,
   <<Comment(10, "leading", "", MacroNode("", NoAttrs))>>}
  \cup {GuardFirst(c) : c \in CondPaths}
  \cup {GuardSecond(c) : c \in CondPaths}
  \cup {GuardFirst(c) \o <<Leading(25, DefineNode(PathV))>> : c \in CondPaths}
  \cup {GuardSecond(c) \o <<Leading(25, DefineNode(PathV))>> : c \in CondPaths}
  \cup {GuardInit(c) \o <<Leading(25, DefineNode(PathV))>> : c \in CondPaths}
  \cup {GuardInit(c) : c \in CondPaths}

MalformedComments ==
  {<<Leading(10, EndifNode)>>,
   <<Leading(10, MacroNode("if", NoAttrs)), Leading(20, EndifNode)>>,
   <<Leading(25, MacroNode("define-inline", NoAttrs))>>,
   <<Leading(25, DefineNode(PathW))>>,
   <<Leading(10, IfNode(PathAB))>>}

PlainSources ==
  {Source(TRUE, w, Program(FALSE, PlainBody), cs) :
     w \in BOOLEAN, cs \in WellFormedComments \cup MalformedComments}

RejectedSources == {Source(FALSE, w, NoProgram, <<>>) : w \in BOOLEAN}

OptTables ==
  {<<ModuleDef("100", TRUE, b1), ModuleDef("153", TRUE, b2), ModuleDef("300", TRUE, <<>>)>> :
     b1 \in {<<>>, <<BodyStmt("load", "153")>>},
     b2 \in {<<>>, <<BodyStmt("declload", "300")>>}}

BundleSources ==
  {Source(TRUE, TRUE,
          Program(FALSE, <<ObjectStmt("table", mods), LoadStmt(k1, 20, "100"),
                           LoadStmt(k2, 30, id)>>),
          cs) :
     mods \in OptTables, k1 \in {"load", "declload"}, k2 \in {"load", "declload"},
     id \in {"153", "300"},
     cs \in {<<>>} \cup {<<Leading(30, IfNode(c)), Trailing(39, EndifNode)>> : c \in CondPaths}}

AllFeatures ==
  <<JEntry("enableFeatureA", JBool(TRUE)), JEntry("enableFeatureB", JBool(TRUE)),
    JEntry("enableDebugMode", JBool(TRUE))>>

OptConfigs ==
  {JObj(<<>>),
   JObj(<<JEntry("a", JObj(<<JEntry("b", JBool(FALSE))>>)), JEntry("v", JNum(42))>>),
   JObj(<<JEntry("a", JObj(<<JEntry("b", JBool(TRUE))>>)), JEntry("v", JNull)>>),
   JObj(<<JEntry("features", JObj(<<JEntry("f", JBool(TRUE))>>)), JEntry("v", JNum(42))>>),
   JObj(<<JEntry("features", JObj(<<JEntry("f", JBool(FALSE))>>)), JEntry("v", JStr("s"))>>),
   JObj(<<JEntry("features", JObj(<<>>)), JEntry("v", JNum(42))>>),
   JObj(<<JEntry("features", JObj(AllFeatures \o <<JEntry("f", JBool(FALSE))>>))>>),
   JObj(<<JEntry("features", JObj(AllFeatures \o <<JEntry("f", JBool(TRUE))>>)),
          JEntry("v", JNum(42))>>)}

OptimiseEntries == {"wasm_optimize", "optimize", "optimize_with_modular_pipeline"}

InitO ==
  /\ entry \in OptimiseEntries
  /\ source \in PlainSources \cup RejectedSources \cup BundleSources
  /\ meta_data \in OptConfigs
  /\ pc = "call"
  /\ macros = <<>>
  /\ if_stack = <<>>
  /\ directives = <<>>
  /\ remove_list = {}
  /\ replace_expr_list = <<>>
  /\ panic = NoPanic
  /\ program = NoProgram
  /\ comments = <<>>
  /\ module_graph = NewGraph
  /\ mutation_tracker = NewTracker
  /\ out = NoOutput

NoScan == [if_stack |-> <<>>, directives |-> <<>>, panic |-> NoPanic]
NoTransformer == [remove_list |-> {}, replace_expr_list |-> <<>>, panic |-> NoPanic]

\* The state in which an entry point returns or panics.
Return(ms, scanned, t, pn, prog, cs, g, tr, o) ==
  /\ macros' = ms
  /\ if_stack' = scanned.if_stack
  /\ directives' = scanned.directives
  /\ remove_list' = t.remove_list
  /\ replace_expr_list' = t.replace_expr_list
  /\ panic' = pn
  /\ program' = prog
  /\ comments' = cs
  /\ module_graph' = g
  /\ mutation_tracker' = tr
  /\ out' = o
  /\ pc' = "done"
  /\ UNCHANGED <<meta_data, entry, source>>

Panicked(ms, scanned, pn, prog, cs, g) ==
  Return(ms, scanned, NoTransformer, pn, prog, cs, g, NewTracker,
         Output("panic", NoProgram, <<>>))

\* lib.rs 33-130: the wasm export optimize(source, config).
WasmOptimize ==
  /\ entry = "wasm_optimize"
  /\ pc = "call"
  /\ IF ~source.parses
     THEN Panicked(<<>>, NoScan, PanicParse, NoProgram, <<>>, NewGraph)
     ELSE \E lorder \in Orders(Positions(source.comments, "leading")),
             torder \in Orders(Positions(source.comments, "trailing")) :
          LET ms == ParsedMacros("common", source.comments, lorder, torder)
              cs == RetainedComments("common", source.comments)
              g1 == hydrate_module_graph_from_chunk(NewGraph, source.program)
              scanned == ParseDirectives(ms)
              t == condition_transform(meta_data, ms)
              p1 == visit_mut_program(t, source.program)
              tr == analyze_conditional_span_dependencies(meta_data,
                      track_eliminated_dependencies(ImportVariables(source.program),
                                                    ImportVariables(p1), NewTracker))
          IN IF wasm_should_skip_all_transformations(meta_data)
             THEN Return(ms, NoScan, NoTransformer, NoPanic, source.program, cs, g1,
                         NewTracker, Output("source", source.program, source.comments))
             ELSE IF t.panic # NoPanic
             THEN Panicked(sort_by_key(ms), scanned, t.panic, source.program, cs, g1)
             ELSE \E p2 \in DceResults(p1) :
                  LET g2 == apply_mutation_insights_to_graph(
                              hydrate_module_graph_from_chunk(g1, p2), tr)
                      p3 == perform_final_transformations_with_mutations(p2, tr)
                  IN Return(sort_by_key(ms), scanned, t, NoPanic, p3, cs, g2, tr,
                            Output("printed", p3, cs))

\* optimize.rs 25-81: the upstream optimize(source, config).
Optimize ==
  /\ entry = "optimize"
  /\ pc = "call"
  /\ IF ~source.parses
     THEN Panicked(<<>>, NoScan, PanicParse, NoProgram, <<>>, NewGraph)
     ELSE \E lorder \in Orders(Positions(source.comments, "leading")),
             torder \in Orders(Positions(source.comments, "trailing")) :
          LET ms == ParsedMacros("common", source.comments, lorder, torder)
              cs == RetainedComments("common", source.comments)
              scanned == ParseDirectives(ms)
              t == condition_transform(meta_data, ms)
          IN IF t.panic # NoPanic
             THEN Panicked(sort_by_key(ms), scanned, t.panic, source.program, cs, NewGraph)
             ELSE \E p2 \in DceResults(visit_mut_program(t, source.program)) :
                  Return(sort_by_key(ms), scanned, t, NoPanic, p2, cs, NewGraph,
                         NewTracker, Output("printed", p2, cs))

\* optimize.rs 260-280: apply_conditional_transformations on the comments
\* as they are when it is called.
apply_conditional_transformations(prog, config, cs, lorder, torder) ==
  LET ms == ParsedMacros("common", cs, lorder, torder)
      t == condition_transform(config, ms)
  IN IF ms = <<>>
     THEN [macros |-> ms, scanned |-> NoScan, t |-> NoTransformer, program |-> prog,
           comments |-> cs]
     ELSE [macros |-> sort_by_key(ms), scanned |-> ParseDirectives(ms), t |-> t,
           program |-> IF t.panic = NoPanic THEN visit_mut_program(t, prog) ELSE prog,
           comments |-> RetainedComments("common", cs)]

\* optimize.rs 84-156: optimize_with_modular_pipeline(source, config).
OptimizeWithModularPipeline ==
  /\ entry = "optimize_with_modular_pipeline"
  /\ pc = "call"
  /\ IF ~source.parses
     THEN Return(<<>>, NoScan, NoTransformer, NoPanic, NoProgram, <<>>, NewGraph,
                 NewTracker, Output("source", source.program, source.comments))
     ELSE \E lorder \in Orders(Positions(source.comments, "leading")),
             torder \in Orders(Positions(source.comments, "trailing")) :
          LET skip == should_skip_all_transformations(meta_data)
              first == IF skip THEN has_conditional_macros(source.comments, lorder, torder)
                       ELSE [found |-> FALSE, comments |-> source.comments]
              second == has_conditional_macros(first.comments,
                          SelectSeq(lorder, LAMBDA p : p \in Positions(first.comments, "leading")),
                          SelectSeq(torder, LAMBDA p : p \in Positions(first.comments, "trailing")))
              applied ==
                IF second.found
                THEN apply_conditional_transformations(source.program, meta_data,
                       second.comments,
                       SelectSeq(lorder, LAMBDA p : p \in Positions(second.comments, "leading")),
                       SelectSeq(torder, LAMBDA p : p \in Positions(second.comments, "trailing")))
                ELSE [macros |-> <<>>, scanned |-> NoScan, t |-> NoTransformer,
                      program |-> source.program, comments |-> second.comments]
          IN IF skip /\ ~first.found
             THEN Return(<<>>, NoScan, NoTransformer, NoPanic, source.program,
                         first.comments, NewGraph, NewTracker,
                         Output("source", source.program, source.comments))
             ELSE IF applied.t.panic # NoPanic
             THEN Panicked(applied.macros, applied.scanned, applied.t.panic,
                           applied.program, applied.comments, NewGraph)
             ELSE IF ~source.webpack
             THEN Return(applied.macros, applied.scanned, applied.t, NoPanic,
                         applied.program, applied.comments, NewGraph, NewTracker,
                         Output("source", source.program, source.comments))
             ELSE Return(applied.macros, applied.scanned, applied.t, NoPanic,
                         applied.program, applied.comments, NewGraph, NewTracker,
                         Output("printed", applied.program, applied.comments))

NextO == WasmOptimize \/ Optimize \/ OptimizeWithModularPipeline

SpecO == InitO /\ [][NextO]_vars

(***************************************************************************)
(* The transformer on its own: the macros of the comments are parsed,      *)
(* condition_transform builds the transformer and the program is visited   *)
(* (optimize.rs 40-47), with no later pass.  The sources are the annotated *)
(* sources of three statements and sources with a nested pair of guards.   *)
(***************************************************************************)
NestedGuards(outer, inner) ==
  <<Leading(20, IfNode(inner)), Leading(10, IfNode(outer)),
    Leading(30, EndifNode), Trailing(39, EndifNode)>>

NestedComments ==
  {NestedGuards(o, i) : o \in CondPaths, i \in CondPaths}
  \cup {NestedGuards(o, i) \o <<Leading(25, DefineNode(PathV))>> :
          o \in CondPaths, i \in CondPaths}

TransformSources ==
  {Source(TRUE, FALSE, Program(m, PlainBody), cs) :
     m \in BOOLEAN, cs \in WellFormedComments \cup NestedComments}

InitT ==
  /\ entry = "visit_mut_with"
  /\ source \in TransformSources
  /\ meta_data \in OptConfigs
  /\ program = source.program
  /\ comments = source.comments
  /\ pc = "call"
  /\ macros = <<>>
  /\ if_stack = <<>>
  /\ directives = <<>>
  /\ remove_list = {}
  /\ replace_expr_list = <<>>
  /\ panic = NoPanic
  /\ module_graph = NewGraph
  /\ mutation_tracker = NewTracker
  /\ out = NoOutput

\* optimize.rs 40-47: MacroParser::parse, condition_transform and
\* program.visit_mut_with(&mut transformer).
Transform ==
  /\ entry = "visit_mut_with"
  /\ pc = "call"
  /\ \E lorder \in Orders(Positions(comments, "leading")),
        torder \in Orders(Positions(comments, "trailing")) :
     LET ms == ParsedMacros("common", comments, lorder, torder)
         scanned == ParseDirectives(ms)
         t == condition_transform(meta_data, ms)
     IN /\ macros' = sort_by_key(ms)
        /\ comments' = RetainedComments("common", comments)
        /\ if_stack' = scanned.if_stack
        /\ directives' = scanned.directives
        /\ remove_list' = t.remove_list
        /\ replace_expr_list' = t.replace_expr_list
        /\ panic' = t.panic
        /\ program' = IF t.panic = NoPanic THEN visit_mut_program(t, program) ELSE program
        /\ pc' = IF t.panic = NoPanic THEN "done" ELSE "panicked"
  /\ UNCHANGED <<meta_data, entry, source, module_graph, mutation_tracker, out>>

NextT == Transform

SpecT == InitT /\ [][NextT]_vars

(***************************************************************************)
(* Bundles handed to the graph builders: a table of three modules whose    *)
(* bodies load each other, themselves, or a module the table lacks,        *)
(* followed by loads outside the table or by an object literal that is no  *)
(* modules table.  "guarded" is a load call under an if statement of the   *)
(* function body.                                                          *)
(***************************************************************************)
GraphBodies ==
  {<<>>, <<BodyStmt("load", "100")>>, <<BodyStmt("declload", "153")>>,
   <<BodyStmt("nested", "300")>>, <<BodyStmt("guarded", "153")>>,
   <<BodyStmt("load", ExternalId)>>,
   <<BodyStmt("declload", "300"), BodyStmt("load", "153")>>}

GraphTables ==
  {[j \in 1..3 |-> ModuleDef(ModuleIds[j], fns[j], IF fns[j] THEN bodies[j] ELSE <<>>)] :
     fns \in {<<TRUE, TRUE, TRUE>>, <<FALSE, FALSE, TRUE>>},
     bodies \in [1..3 -> GraphBodies]}

GraphTails ==
  {<<>>, <<LoadStmt("load", 20, "100")>>, <<LoadStmt("declload", 20, ExternalId)>>,
   <<LoadStmt("nested", 20, "100"), LoadStmt("load", 30, "300")>>,
   <<LoadStmt("load", 20, "153"), LoadStmt("load", 30, ExternalId)>>,
   <<Stmt("object", 40, 49, "", Orig,
          <<ModuleDef("7", FALSE, <<>>),
            ModuleDef("8", TRUE, <<BodyStmt("guarded", "300")>>)>>)>>}

GraphPrograms ==
  {Program(FALSE, <<ObjectStmt(kind, mods)>> \o tail) :
     kind \in ObjectKinds, mods \in GraphTables, tail \in GraphTails}

GraphSources ==
  {Source(TRUE, TRUE, p, <<>>) : p \in GraphPrograms}
  \cup {Source(FALSE, FALSE, NoProgram, <<>>)}

GraphBuilders == {"parse_bundle", "hydrate_module_graph_from_chunk"}

\* What the last call on the graph returned.
Returns(kind, module_id, ids, ok) ==
  [kind |-> kind, module_id |-> module_id, ids |-> ids, ok |-> ok]

InitG ==
  /\ entry \in GraphBuilders
  /\ source \in GraphSources
  /\ entry = "hydrate_module_graph_from_chunk" => source.parses
  /\ program = source.program
  /\ pc = "call"
  /\ meta_data = JObj(<<>>)
  /\ macros = <<>>
  /\ if_stack = <<>>
  /\ directives = <<>>
  /\ remove_list = {}
  /\ replace_expr_list = <<>>
  /\ panic = NoPanic
  /\ comments = <<>>
  /\ module_graph = IF entry = "parse_bundle" THEN NewModuleGraph ELSE NewGraph
  /\ mutation_tracker = NewTracker
  /\ out = NoOutput

graph_unchanged ==
  UNCHANGED <<meta_data, macros, if_stack, directives, remove_list,
              replace_expr_list, panic, entry, source, program, comments,
              mutation_tracker>>

\* parser.rs 21-84: WebpackBundleParser::parse_bundle(source)
ParseBundle ==
  /\ entry = "parse_bundle"
  /\ pc = "call"
  /\ LET r == parse_bundle(source)
     IN /\ module_graph' = r.graph
        /\ pc' = IF r.error = NoError THEN "graph" ELSE "failed"
        /\ out' = Returns("parse_bundle", r.error, {}, r.error = NoError)
  /\ graph_unchanged

\* webpack_module_graph.rs 111-139: hydrate_module_graph_from_chunk(&program)
Hydrate ==
  /\ entry = "hydrate_module_graph_from_chunk"
  /\ pc = "call"
  /\ LET g == hydrate_module_graph_from_chunk(NewGraph, program)
     IN \E order \in calculate_execution_order(g) :
          module_graph' = [modules |-> g.modules,
                           entry_modules |-> g.entry_modules,
                           reachable_modules |-> g.reachable_modules,
                           execution_order |-> order]
  /\ pc' = "hydrated"
  /\ out' = Returns("hydrate_module_graph_from_chunk", "", {}, TRUE)
  /\ graph_unchanged

\* tree_shaker.rs 23-48: TreeShaker::new(&mut graph).remove_module(module_id)
RemoveModule ==
  /\ pc = "graph"
  /\ \E module_id \in Range(ModuleIds) \cup {ExternalId} :
       LET r == remove_module(module_graph, module_id)
       IN /\ module_graph' = r.graph
          /\ out' = Returns("remove_module", module_id, {}, r.removed)
  /\ pc' = pc
  /\ graph_unchanged

\* tree_shaker.rs 56-62: TreeShaker::new(&mut graph).shake()
TreeShake ==
  /\ pc = "graph"
  /\ LET r == shake(module_graph)
     IN /\ module_graph' = r.graph
        /\ out' = Returns("shake", "", r.removed, TRUE)
  /\ pc' = pc
  /\ graph_unchanged

NextG == ParseBundle \/ Hydrate \/ RemoveModule \/ TreeShake

SpecG == InitG /\ [][NextG]_vars

(***************************************************************************)
(* perform_dce and perform_dce_with_tracking (swc_macro_wasm): the loop    *)
(* that runs swc's dce visitor until it reports no change.  The visitor is *)
(* not code of this repository: one pass drops any choice of the           *)
(* statements dce may drop and reports a change exactly when it dropped    *)
(* one.  out holds the visitor and the pass counter.                       *)
(***************************************************************************)
MaxStmts == 4
MaxPasses == MaxStmts + 2

DceStmt(kind, i) == Stmt(kind, 10 * i, 10 * i + 9, IF kind = "load" THEN "100" ELSE "", Orig, <<>>)

DcePrograms ==
  UNION {{Program(FALSE, [i \in 1..n |-> DceStmt(kinds[i], i)]) :
            kinds \in [1..n -> {"empty", "decl", "load"}]} : n \in 0..MaxStmts}

DceVisitor(changed, pass_count) ==
  [kind |-> "dce", changed |-> changed, pass_count |-> pass_count]

DcePassesAnyReport(prog) ==
  {[program |-> p, changed |-> c] : p \in DceResults(prog), c \in BOOLEAN}

\* program.visit_mut_with(&mut visitor) and what visitor.changed() says then.
DcePasses(prog) ==
  {[program |-> p, changed |-> p # prog] : p \in DceResults(prog)}

InitL ==
  /\ entry = "perform_dce"
  /\ source \in {Source(TRUE, FALSE, p, <<>>) : p \in DcePrograms}
  /\ program = source.program
  /\ pc = "loop"
  /\ out = DceVisitor(FALSE, 0)
  /\ meta_data = JObj(<<>>)
  /\ macros = <<>>
  /\ if_stack = <<>>
  /\ directives = <<>>
  /\ remove_list = {}
  /\ replace_expr_list = <<>>
  /\ panic = NoPanic
  /\ comments = <<>>
  /\ module_graph = NewGraph
  /\ mutation_tracker = NewTracker

loop_unchanged ==
  UNCHANGED <<meta_data, macros, if_stack, directives, remove_list,
              replace_expr_list, panic, entry, source, comments,
              module_graph, mutation_tracker>>

\* pass_count += 1; program.visit_mut_with(&mut visitor)
VisitMutWith ==
  /\ entry = "perform_dce"
  /\ pc = "loop"
  /\ out.pass_count < MaxPasses
  /\ \E r \in DcePasses(program) :
       /\ program' = r.program
       /\ out' = DceVisitor(r.changed, out.pass_count + 1)
  /\ pc' = "visited"
  /\ loop_unchanged

\* if !visitor.changed() { break; } visitor.reset();
BreakOrReset ==
  /\ entry = "perform_dce"
  /\ pc = "visited"
  /\ IF ~out.changed
     THEN pc' = "done" /\ out' = out
     ELSE pc' = "loop" /\ out' = DceVisitor(FALSE, out.pass_count)
  /\ UNCHANGED program
  /\ loop_unchanged

NextL == VisitMutWith \/ BreakOrReset

SpecL == InitL /\ [][NextL]_vars

\* The loop is sequential code: a step that can be taken is taken.
SpecLFair == SpecL /\ WF_vars(NextL)

(***************************************************************************)
(* Properties.                                                             *)
(***************************************************************************)
DirectiveCount(ms, lo, hi, name) ==
  Cardinality({k \in lo..hi : ms[k].node.directive = name})

\* The if that an endif at index j closes: the nearest earlier if with as many
\* ifs as endifs strictly between the two.
Balanced(ms, i, j) ==
  /\ ms[i].node.directive = "if"
  /\ DirectiveCount(ms, i + 1, j - 1, "if") = DirectiveCount(ms, i + 1, j - 1, "endif")

MatchingIf(ms, j) ==
  CHOOSE i \in 1..(j - 1) :
    /\ Balanced(ms, i, j)
    /\ \A i2 \in (i + 1)..(j - 1) : ~Balanced(ms, i2, j)

EndifIndexes(ms) ==
  SelectSeq([i \in 1..Len(ms) |-> i], LAMBDA i : ms[i].node.directive = "endif")

ExpectedConditionals(ms) ==
  LET js == EndifIndexes(ms) IN
  [k \in 1..Len(js) |->
     LET j == js[k]
         i == MatchingIf(ms, j)
     IN IfDirective([lo |-> ms[i].pos, hi |-> ms[j].pos], ms[i].node.attrs.condition)]

Conditionals(ds) == SelectSeq(ds, LAMBDA d : d.kind = "If")
ValueInlines(ds) == SelectSeq(ds, LAMBDA d : d.kind = "DefineInline")

Scanned == pc \in {"scanned", "built"} \/ (pc = "panicked" /\ panic = PanicInvalidValue)

\* C6: on a list of annotations in ascending attach-position order every endif
\* is paired with the most recently opened, not yet closed if, and the
\* Conditional emitted for it has the range [position of that if, position of
\* the endif] and the condition of that if.
C6_LifoPairing ==
  Scanned =>
    /\ \A i \in 1..(Len(macros) - 1) : macros[i].pos <= macros[i + 1].pos
    /\ Conditionals(directives) = ExpectedConditionals(macros)

\* A nested pair with two different conditions has been scanned.
C6_Witness ==
  /\ pc = "scanned"
  /\ \E i, j \in 1..Len(directives) :
       /\ i < j
       /\ directives[i].kind = "If" /\ directives[j].kind = "If"
       /\ directives[j].range.lo < directives[i].range.lo
       /\ directives[i].range.hi <= directives[j].range.hi
       /\ directives[i].condition # directives[j].condition

\* C7: when the annotation list ends with an if still open, no transformer is
\* produced: the scanner fails.
C7_UnclosedIfFails == pc \in {"scanned", "built"} => if_stack = <<>>

\* C9: evaluate(path) is true exactly when query(path) is the JSON boolean
\* true, and the remove-list holds exactly the ranges of the conditionals
\* whose path does not query to the boolean true.
C9_FalsyByDefault ==
  /\ \A p \in {PathA, PathAB} :
       evaluate_bool(meta_data, p) <=> (query(meta_data, p) = JBool(TRUE))
  /\ pc = "built" =>
       remove_list =
         {directives[i].range :
            i \in {k \in 1..Len(directives) :
                     /\ directives[k].kind = "If"
                     /\ query(meta_data, directives[k].condition) # JBool(TRUE)}}

\* A conditional guarded by a non-boolean, non-empty leaf is on the remove-list.
C9_Witness ==
  /\ pc = "built"
  /\ \E i \in 1..Len(directives) :
       /\ directives[i].kind = "If"
       /\ query(meta_data, directives[i].condition).k \in {"number", "string", "array", "object"}
       /\ is_value_truthy(query(meta_data, directives[i].condition))
       /\ directives[i].range \in remove_list

ExpectedReplacement(d) ==
  LET q == query(meta_data, d.value) IN
  CASE q.k = "null" -> LitNull
    [] q.k = "none" -> LitStr(d.default)
    [] OTHER -> to_ast(q)

Unresolved(d) == query(meta_data, d.value).k = "none" /\ ~d.has_default

\* C10: the replacement of a define-inline is the literal of the queried value
\* when the path is present (null gives the null literal), otherwise the
\* default as a string literal; with neither, the preparation fails and the
\* directive gets no replace-list entry.
C10_Replacement ==
  LET vs == ValueInlines(directives) IN
  /\ pc = "built" =>
       /\ Len(replace_expr_list) = Len(vs)
       /\ \A i \in 1..Len(vs) :
            /\ ~Unresolved(vs[i])
            /\ replace_expr_list[i] =
                 [pos |-> vs[i].pos, replacement |-> ExpectedReplacement(vs[i])]
  /\ (pc = "panicked" /\ panic = PanicInvalidValue) =>
       /\ Len(replace_expr_list) < Len(vs)
       /\ Unresolved(vs[Len(replace_expr_list) + 1])
       /\ \A i \in 1..Len(replace_expr_list) :
            replace_expr_list[i] =
              [pos |-> vs[i].pos, replacement |-> ExpectedReplacement(vs[i])]

\* A path resolving to null with a default given has been replaced.
C10_Witness ==
  /\ pc = "built"
  /\ \E i \in 1..Len(directives) :
       /\ directives[i].kind = "DefineInline"
       /\ directives[i].has_default
       /\ query(meta_data, directives[i].value) = JNull
       /\ replace_expr_list # <<>>

\* The keys left in the object literals of prog that R took for module
\* tables in the bundle src.
ExtractedPlaces(src) ==
  {src.body[i].lo : i \in {k \in ObjectsOf(src) :
                             src.body[k].kind = "table" \/ k \in ModuleObjectsOf(src)}}
RemainingDefinitions(src, prog) ==
  UNION {KeysOf(prog.body[i].mods) :
           i \in {k \in 1..Len(prog.body) : prog.body[k].lo \in ExtractedPlaces(src)}}
Shaken == entry = "perform_webpack_tree_shaking" /\ pc = "done"

SourceMacros ==
  ParsedMacros("common", source.comments,
               SetToSeq(Positions(source.comments, "leading")),
               SetToSeq(Positions(source.comments, "trailing")))
SourceDirectives == ParseDirectives(SourceMacros)
SourceTransformer == condition_transform(meta_data, SourceMacros)
TransformedTree == visit_mut_program(SourceTransformer, source.program)
Returned == entry \in OptimiseEntries /\ pc = "done" /\ out.kind \in {"source", "printed"}
InOutput(lo) == \E i \in 1..Len(out.program.body) : out.program.body[i].lo = lo

\* The complete statements of the source inside a paired if/endif whose
\* condition is false.
FalseGuarded ==
  {source.program.body[i].lo :
     i \in {k \in 1..Len(source.program.body) :
              \E j \in 1..Len(SourceDirectives.directives) :
                 /\ SourceDirectives.directives[j].kind = "If"
                 /\ ~evaluate_bool(meta_data, SourceDirectives.directives[j].condition)
                 /\ Contains(SourceDirectives.directives[j].range,
                             StmtSpan(source.program.body[k]))}}

\* C1: a complete statement bracketed by a paired if/endif whose condition
\* is false is absent from what an optimise entry point returns.
C1_FalseRegionsAbsent ==
  (Returned /\ source.parses /\ SourceDirectives.panic = NoPanic) =>
    \A lo \in FalseGuarded : ~InOutput(lo)

\* C2: an expression annotated with a define-inline whose value path
\* resolves is, wherever its statement is still in the output, the literal
\* of the resolved value.
C2_ValueInlined ==
  (Returned /\ source.parses /\ SourceTransformer.panic = NoPanic) =>
    \A j \in 1..Len(SourceDirectives.directives) :
      \A i \in 1..Len(source.program.body) :
        LET d == SourceDirectives.directives[j]
            s == source.program.body[i]
        IN (/\ d.kind = "DefineInline"
            /\ query(meta_data, d.value).k # "none"
            /\ ChildLo(s) = d.pos
            /\ s.lo \notin FalseGuarded) =>
             \A k \in 1..Len(out.program.body) :
               out.program.body[k].lo = s.lo =>
                 out.program.body[k].expr = to_ast(query(meta_data, d.value))

\* The keys of the modules table of a program.
TableKeys(prog) ==
  UNION {KeysOf(prog.body[i].mods) :
           i \in {k \in 1..Len(prog.body) : prog.body[k].kind = "table"}}
ReachableInTransformed ==
  hydrate_module_graph_from_chunk(NewGraph, TransformedTree).reachable_modules

\* C3: optimise never removes the definition of a module that is reachable
\* from an entry point in the transformed tree.
C3_ReachableKept ==
  (Returned /\ source.parses /\ SourceTransformer.panic = NoPanic) =>
    \A id \in TableKeys(TransformedTree) \cap ReachableInTransformed :
      id \in TableKeys(out.program)

\* C4: every module unreachable from the entry points after the conditional
\* transformation has no definition in the output of optimise.
C4_UnreachableRemoved ==
  (Returned /\ source.parses /\ SourceTransformer.panic = NoPanic) =>
    \A id \in TableKeys(TransformedTree) \ ReachableInTransformed :
      id \notin TableKeys(out.program)

\* C8: when the source does not parse or the directives of the source make
\* the pass fail, the entry point hands back the failure and no source text.
C8_FailuresSurface ==
  (entry \in OptimiseEntries /\ pc = "done"
     /\ (~source.parses \/ SourceTransformer.panic # NoPanic)) =>
    out.kind = "panic"

(***************************************************************************)
(* Properties of the transformer.                                          *)
(***************************************************************************)
Transformed == entry = "visit_mut_with" /\ pc = "done"

\* The false ranges the directives of the source give.
FalseRanges ==
  {SourceDirectives.directives[j].range :
     j \in {k \in 1..Len(SourceDirectives.directives) :
              /\ SourceDirectives.directives[k].kind = "If"
              /\ ~evaluate_bool(meta_data, SourceDirectives.directives[k].condition)}}
StmtRemoved(s) == \E r \in FalseRanges : r.lo <= s.lo /\ s.hi <= r.hi
ExprRemoved(s) == \E r \in FalseRanges : r.lo <= ChildLo(s) /\ s.hi - 1 <= r.hi

\* The define-inline directives of the source attached at the start of the
\* child expression of s, in the order of the directives.
InlinesAt(s) ==
  SelectSeq(SourceDirectives.directives,
            LAMBDA d : d.kind = "DefineInline" /\ d.pos = ChildLo(s))
InlineLiteral(d) ==
  IF query(meta_data, d.value).k # "none" THEN to_ast(query(meta_data, d.value))
  ELSE string_to_ast(d.default)

\* C11 as stated: an expression wholly inside a range of the remove-list
\* becomes the null literal and is not examined for replacement, even when
\* its start position is a key of the replace-list.
C11_RemovalFirst ==
  Transformed =>
    \A i \in 1..Len(source.program.body) :
      (ExprRemoved(source.program.body[i]) /\ ~StmtRemoved(source.program.body[i])) =>
        program.body[i].expr = LitNull

\* C11 amended: replacement comes first.  An expression whose start is a key
\* of the replace-list becomes that literal, also inside a range of the
\* remove-list; any other expression wholly inside a range becomes the null
\* literal; every other expression is left as it was.
C11_ReplacementFirst ==
  Transformed =>
    \A i \in 1..Len(source.program.body) :
      LET s == source.program.body[i] IN
      ~StmtRemoved(s) =>
        program.body[i].expr =
          IF InlinesAt(s) # <<>> THEN InlineLiteral(InlinesAt(s)[1])
          ELSE IF ExprRemoved(s) THEN LitNull
          ELSE Orig

C11_Witness ==
  /\ Transformed
  /\ \E i \in 1..Len(source.program.body) :
       /\ ExprRemoved(source.program.body[i])
       /\ ~StmtRemoved(source.program.body[i])
       /\ InlinesAt(source.program.body[i]) # <<>>
       /\ program.body[i].expr = LitNum(42)

RemovedIndexes ==
  {i \in 1..Len(source.program.body) : StmtRemoved(source.program.body[i])}

\* C12 as stated: a module item or statement wholly inside a range of the
\* remove-list is taken out of its sequence, which gets shorter, and no
\* empty placeholder statement is left.
C12_SequenceShrinks ==
  Transformed =>
    /\ Len(program.body) = Len(source.program.body) - Cardinality(RemovedIndexes)
    /\ \A i \in 1..Len(program.body) : program.body[i].kind # "empty"

\* C12 amended: the module item or statement is overwritten in place by an
\* empty statement with the dummy span; the sequence keeps its length and
\* every other statement keeps its place.
C12_EmptyPlaceholder ==
  Transformed =>
    /\ Len(program.body) = Len(source.program.body)
    /\ \A i \in 1..Len(source.program.body) :
         IF i \in RemovedIndexes
         THEN program.body[i] = EmptyStmt
         ELSE /\ program.body[i].kind # "empty"
              /\ program.body[i].lo = source.program.body[i].lo
              /\ program.body[i].hi = source.program.body[i].hi

C12_Witness ==
  /\ Transformed
  /\ RemovedIndexes # {}
  /\ \E i \in RemovedIndexes : program.body[i] = EmptyStmt
  /\ \E i \in 1..Len(program.body) : program.body[i].kind # "empty"

IfIndexes ==
  {j \in 1..Len(SourceDirectives.directives) : SourceDirectives.directives[j].kind = "If"}
Inside(r, lo, hi) == r.lo <= lo /\ hi <= r.hi
\* The pairs (outer, inner) of If directives of the source, inner within outer.
NestedPairs ==
  {p \in IfIndexes \X IfIndexes :
     /\ p[1] # p[2]
     /\ Inside(SourceDirectives.directives[p[1]].range,
               SourceDirectives.directives[p[2]].range.lo,
               SourceDirectives.directives[p[2]].range.hi)}
Truthy(j) == evaluate_bool(meta_data, SourceDirectives.directives[j].condition)

\* C13: for nested conditionals, outer true and inner false removes exactly
\* the statements within the inner range and keeps the rest of the outer
\* region; outer false removes every statement within the outer range,
\* those of the inner range included, whatever the inner condition is.
C13_NestedConditionals ==
  Transformed =>
    \A p \in NestedPairs :
      LET outer == SourceDirectives.directives[p[1]].range
          inner == SourceDirectives.directives[p[2]].range
      IN \A i \in 1..Len(source.program.body) :
           LET s == source.program.body[i] IN
           /\ (Truthy(p[1]) /\ ~Truthy(p[2]) /\ Inside(outer, s.lo, s.hi)) =>
                (program.body[i] = EmptyStmt <=> Inside(inner, s.lo, s.hi))
           /\ (~Truthy(p[1]) /\ Inside(outer, s.lo, s.hi)) =>
                program.body[i] = EmptyStmt

C13_Witness ==
  /\ Transformed
  /\ \E p \in NestedPairs :
       /\ Truthy(p[1]) /\ ~Truthy(p[2])
       /\ \E i, k \in 1..Len(source.program.body) :
            /\ Inside(SourceDirectives.directives[p[2]].range,
                      source.program.body[i].lo, source.program.body[i].hi)
            /\ program.body[i] = EmptyStmt
            /\ Inside(SourceDirectives.directives[p[1]].range,
                      source.program.body[k].lo, source.program.body[k].hi)
            /\ program.body[k].kind # "empty"

(***************************************************************************)
(* Properties of the comment stream.                                       *)
(***************************************************************************)
CommentsOf(cs) == {cs[i] : i \in 1..Len(cs)}

\* C14: what optimise returns holds no comment with an annotation of the
\* namespace common, and every comment of the source that has none is still
\* in place.
C14_NoAnnotationInOutput ==
  (Returned /\ source.parses) =>
    /\ \A c \in CommentsOf(out.comments) : c.ns # "common"
    /\ \A c \in CommentsOf(source.comments) : c.ns # "common" => c \in CommentsOf(out.comments)

(***************************************************************************)
(* Graph properties (webpack_graph, WebpackModuleGraph).                   *)
(***************************************************************************)
IsModuleGraph == entry = "parse_bundle" /\ pc = "graph"
Present == DOMAIN module_graph.modules

\* C15: in a graph built by parse_bundle, and after every later
\* remove_module and shake, for all modules u and v of the graph v is a
\* dependency of u exactly when u is a dependent of v.
C15_BidirectionalEdges ==
  IsModuleGraph =>
    \A u \in Present, v \in Present :
      v \in module_graph.modules[u].dependencies
        <=> u \in module_graph.modules[v].dependents

\* A module was removed from a parsed graph and an edge between two other
\* modules is left.
C15_Witness ==
  /\ IsModuleGraph
  /\ out.kind = "remove_module"
  /\ out.ok
  /\ \E u \in Present, v \in Present :
       u # v /\ v \in module_graph.modules[u].dependencies

EntryIds ==
  IF entry = "parse_bundle" THEN Range(module_graph.entry_points)
  ELSE module_graph.entry_modules

\* C16: in every graph parse_bundle or hydrate_module_graph_from_chunk
\* builds, and after every later remove_module and shake, each entry ID is
\* a key of the module map.
C16_EntriesAreKeys ==
  pc \in {"graph", "hydrated"} => EntryIds \subseteq Present

\* The same for the graphs of parse_bundle and the tree shaker alone.
C16_ParsedEntriesAreKeys ==
  IsModuleGraph => EntryIds \subseteq Present

\* The IDs one outgoing edge away from the modules of S, and the IDs joined
\* to the entry points by zero or more outgoing edges.
Successors(g, S) ==
  UNION {g.modules[id].dependencies : id \in S \cap DOMAIN g.modules}
RECURSIVE Closure(_, _)
Closure(g, S) ==
  IF Successors(g, S) \subseteq S THEN S ELSE Closure(g, S \cup Successors(g, S))
ReachableIds(g) == Closure(g, Range(g.entry_points))

\* C17: a call of shake leaves a graph in which every module is reachable
\* from an entry point, returns exactly the modules that were unreachable
\* before the call, and removes no module that was reachable before it.
C17_ShakeRemovesUnreachable ==
  [][TreeShake =>
       LET before == module_graph
           after == module_graph'
           dead == (DOMAIN before.modules) \ ReachableIds(before)
       IN /\ DOMAIN after.modules \subseteq ReachableIds(after)
          /\ get_unreachable_modules(after) = {}
          /\ out'.ids = dead
          /\ DOMAIN after.modules = (DOMAIN before.modules) \ dead]_vars

\* shake returned two or more modules and left a module in the graph.
C17_Witness ==
  /\ IsModuleGraph
  /\ out.kind = "shake"
  /\ Cardinality(out.ids) >= 2
  /\ Present # {}

\* The graph of hydrate_module_graph_from_chunk read as a ModuleGraph.
Edges(g) ==
  IF entry = "parse_bundle" THEN [id \in DOMAIN g.modules |-> g.modules[id].dependencies]
  ELSE g.modules
RECURSIVE Paths(_, _)
Paths(edges, S) ==
  LET next == UNION {edges[id] : id \in S \cap DOMAIN edges}
  IN IF next \subseteq S THEN S ELSE Paths(edges, S \cup next)
ComputedReachable ==
  IF entry = "parse_bundle" THEN get_reachable_modules(module_graph)
  ELSE calculate_reachable_modules(module_graph.modules, module_graph.entry_modules)
OnCycle(id) ==
  \E d \in Edges(module_graph)[id] : id \in Paths(Edges(module_graph), {d})

C18_WitnessFor(name) ==
  /\ entry = name
  /\ pc \in {"graph", "hydrated"}
  /\ \E a \in Present \cap ComputedReachable :
       OnCycle(a) /\ a \notin Edges(module_graph)[a]
  /\ \E b \in Present : b \in Edges(module_graph)[b]
  /\ Present \ ComputedReachable # {}
C18_WitnessHydrated == C18_WitnessFor("hydrate_module_graph_from_chunk")

\* The edges and the entry IDs of g once module m is taken out of it.
EdgesWithout(g, m) ==
  [id \in (DOMAIN g.modules) \ {m} |-> g.modules[id].dependencies \ {m}]
EntriesWithout(g, m) == Range(g.entry_points) \ {m}

\* C19: remove_module(m) for a module m of the graph takes m out of the
\* module map, out of the dependencies and dependents of every module left
\* and out of the entry list, changes nothing else, and afterwards
\* get_unreachable_modules reports exactly the modules left that no path
\* joins to an entry left in the graph without m; for an m the graph lacks
\* it returns false and the graph is unchanged.
C19_RemoveModule ==
  [][RemoveModule =>
       LET m == out'.module_id
           before == module_graph
           after == module_graph'
       IN IF m \in DOMAIN before.modules
          THEN /\ out'.ok
               /\ DOMAIN after.modules = (DOMAIN before.modules) \ {m}
               /\ \A id \in DOMAIN after.modules :
                    /\ after.modules[id].dependencies =
                         before.modules[id].dependencies \ {m}
                    /\ after.modules[id].dependents =
                         before.modules[id].dependents \ {m}
               /\ after.entry_points = SelectSeq(before.entry_points, LAMBDA e : e # m)
               /\ m \notin Range(after.entry_points)
               /\ get_unreachable_modules(after) =
                    (DOMAIN after.modules)
                      \ Paths(EdgesWithout(before, m), EntriesWithout(before, m))
          ELSE /\ ~out'.ok
               /\ after = before]_vars

\* A module of a parsed graph without unreachable modules was removed; a
\* module that was reachable only through it is now unreachable and another
\* module is still reachable.
C19_Witness ==
  /\ IsModuleGraph
  /\ out.kind = "remove_module"
  /\ out.ok
  /\ LET parsed == parse_bundle(source).graph
     IN /\ module_graph = remove_module(parsed, out.module_id).graph
        /\ get_unreachable_modules(parsed) = {}
        /\ out.module_id \notin Range(parsed.entry_points)
  /\ get_unreachable_modules(module_graph) # {}
  /\ Present \ get_unreachable_modules(module_graph) # {}

\* remove_module was called with an ID the graph has no module for.
C19_WitnessAbsent ==
  IsModuleGraph /\ out.kind = "remove_module" /\ ~out.ok

\* The load calls of the source by place: in the body of the module
\* function of key k of the __webpack_modules__ table, and outside every
\* object literal.
Built == pc \in {"graph", "hydrated"} /\ out.kind \in GraphBuilders
LoadsInModule(k) ==
  UNION {BodyIds(program.body[i].mods[j].body) :
           <<i, j>> \in {<<a, b>> \in TablesOf(program) \X (1..8) :
                           /\ b \in 1..Len(program.body[a].mods)
                           /\ program.body[a].mods[b].key = k}}
LoadsInObjects ==
  UNION {BodyIds(program.body[i].mods[j].body) :
           <<i, j>> \in {<<a, b>> \in (ObjectsOf(program) \ TablesOf(program)) \X (1..8) :
                           b \in 1..Len(program.body[a].mods)}}
TableIds == UNION {KeysOf(program.body[i].mods) : i \in TablesOf(program)}
EdgesOf(k) == IF k \in Present THEN Edges(module_graph)[k] ELSE {}

LoadsAreEdges == \A k \in TableIds : LoadsInModule(k) \subseteq EdgesOf(k)
EntriesAreOutside == EntryIds \subseteq TopLevelLoads(program) \cup LoadsInObjects
OutsideAreEntries == TopLevelLoads(program) \cap TableIds \subseteq EntryIds
GuardedLoads ==
  UNION {BodyIdsOfKind(program.body[i].mods[j].body, "guarded") :
           <<i, j>> \in {<<a, b>> \in TablesOf(program) \X (1..8) :
                           b \in 1..Len(program.body[a].mods)}}

\* C20: in the graph built from a source, a load call in the body of a
\* module function of the modules table is an edge from that module and
\* makes no entry point, and a load call outside every function body of
\* the table makes its ID, when the table defines it, an entry point.
C20_EdgesAndEntries ==
  Built => LoadsAreEdges /\ EntriesAreOutside /\ OutsideAreEntries

\* The same for parse_bundle on sources whose module functions load at the
\* top level of their body only.
C20_ParsedTopLevelCalls ==
  (Built /\ entry = "parse_bundle" /\ GuardedLoads = {})
    => LoadsAreEdges /\ EntriesAreOutside /\ OutsideAreEntries

\* The same for hydrated graphs of tables that pass the 60 % heuristic.
C20_HydratedModuleObjects ==
  (Built /\ entry # "parse_bundle" /\ TablesOf(program) \subseteq ModuleObjectsOf(program))
    => LoadsAreEdges /\ EntriesAreOutside /\ OutsideAreEntries

\* What parse_bundle guarantees on every source: no entry point comes from
\* a call inside the table, and every load outside it of a defined module
\* is an entry point.
C20_ParsedEntries ==
  (Built /\ entry = "parse_bundle") => EntriesAreOutside /\ OutsideAreEntries

\* C21: for each module of the modules table, every load call with a
\* literal ID in the body of its function, at whatever depth, is an
\* outgoing edge of that module in the graph built from the source.
C21_EveryLoadIsEdge ==
  Built => \A k \in TableIds : LoadsInModule(k) \subseteq EdgesOf(k)

\* The same for parse_bundle on bodies that load at their top level only,
\* and for hydrated graphs of tables that pass the 60 % heuristic.
C21_TopLevelOrModuleObject ==
  (/\ Built
   /\ entry = "parse_bundle" => GuardedLoads = {}
   /\ entry # "parse_bundle" => TablesOf(program) \subseteq ModuleObjectsOf(program))
    => \A k \in TableIds : LoadsInModule(k) \subseteq EdgesOf(k)

(***************************************************************************)
(* Tree shaker properties (perform_webpack_tree_shaking).                  *)
(***************************************************************************)
\* The statement of prog at the place of statement s of the source, if kept.
StmtsAt(prog, lo) == {i \in 1..Len(prog.body) : prog.body[i].lo = lo}
PropsOf(s, key) == {j \in 1..Len(s.mods) : s.mods[j].key = key}
SourceObjects == ObjectsOf(source.program)

TopLevelBareLoads(prog) == {i \in 1..Len(prog.body) : prog.body[i].kind = "load"}
TopLevelLoadsAreReachable ==
  Shaken =>
    \A i \in TopLevelBareLoads(source.program) :
      /\ source.program.body[i].id \in module_graph.reachable_modules
      /\ \E k \in StmtsAt(program, source.program.body[i].lo) :
           program.body[k] = source.program.body[i]

\* The object literals of the source that are neither bound to
\* __webpack_modules__ nor of the shape of a modules table.
OtherObjects ==
  {i \in SourceObjects :
     source.program.body[i].kind # "table" /\ i \notin ModuleObjectsOf(source.program)}

\* C24: perform_webpack_tree_shaking drops properties only from object
\* literals of the shape of the modules table; any other object literal
\* keeps all its properties, also one whose key is an unreachable module ID.
C24_OtherObjectsUntouched ==
  Shaken =>
    \A i \in OtherObjects :
      \E k \in StmtsAt(program, source.program.body[i].lo) :
        program.body[k].mods = source.program.body[i].mods

\* The source has no modules table: no object literal is bound to
\* __webpack_modules__ and none passes the heuristic.
NoTableRecognised == ExtractedPlaces(source.program) = {}

Parsed == entry = "parse_bundle" /\ out.kind = "parse_bundle"
Failed(error) ==
  pc = "failed" /\ ~out.ok /\ out.module_id = error /\ module_graph = NewModuleGraph
\* The IDs of the load calls outside the __webpack_modules__ statement.
LoadsOutsideTable == TopLevelLoads(program) \cup LoadsInObjects

\* C26: parse_bundle returns an error and no graph when the source has no
\* table bound to __webpack_modules__, and when it has one but no load call
\* outside the table names an ID the table defines; a graph it returns has
\* at least one module and at least one entry point.
C26_ParseBundleErrors ==
  (Parsed /\ source.parses) =>
    /\ TablesOf(program) = {} => Failed(InvalidBundleFormat)
    /\ LoadsOutsideTable \cap TableIds = {} => Failed(InvalidBundleFormat)
    /\ pc = "graph" => (out.ok /\ Present # {} /\ module_graph.entry_points # <<>>)
    /\ pc \in {"graph", "failed"}

\* A table whose modules load one another, and outside it only a load call
\* of an ID the table does not define.
C26_Witness ==
  /\ Parsed /\ source.parses
  /\ TablesOf(program) # {}
  /\ \E k \in TableIds : LoadsInModule(k) \cap TableIds # {}
  /\ LoadsOutsideTable # {}
  /\ LoadsOutsideTable \cap TableIds = {}
  /\ Failed(InvalidBundleFormat)

C26_WitnessNoTable ==
  Parsed /\ source.parses /\ TablesOf(program) = {} /\ LoadsOutsideTable # {} /\ pc = "failed"

C26_WitnessGraph ==
  Parsed /\ pc = "graph" /\ Present # {} /\ module_graph.entry_points # <<>>

\* C27: a second perform_webpack_tree_shaking leaves the tree as the first
\* one left it; in particular it keeps the same module definitions.
C27_ShakingIdempotent ==
  (entry = "perform_webpack_tree_shaking" /\ pc = "again") =>
    /\ program = perform_webpack_tree_shaking(source.program)
    /\ RemainingDefinitions(source.program, program)
         = RemainingDefinitions(source.program, perform_webpack_tree_shaking(source.program))

\* The graph of hydrate_module_graph_from_chunk with its execution order.
Ordered == pc = "hydrated" /\ out.kind = "hydrate_module_graph_from_chunk"
PlaceIn(order, id) == CHOOSE i \in 1..Len(order) : order[i] = id
DependenciesIn(g, id) ==
  IF id \in DOMAIN g.modules THEN g.modules[id] \cap g.reachable_modules ELSE {}
ReachableEdges(g) == [id \in g.reachable_modules |-> DependenciesIn(g, id)]
\* The reachable modules on a cycle, and those that depend on one of them.
CycleModules(g) ==
  {id \in g.reachable_modules :
     \E c \in Paths(ReachableEdges(g), {id}) :
       \E d \in DependenciesIn(g, c) : c \in Paths(ReachableEdges(g), {d})}

\* No module is twice in the order, and each module in it stands after the
\* reachable modules it depends on.
OrderIsTopological ==
  LET order == module_graph.execution_order
  IN /\ \A i, j \in 1..Len(order) : order[i] = order[j] => i = j
     /\ Range(order) \subseteq module_graph.reachable_modules
     /\ \A id \in Range(order) : \A d \in DependenciesIn(module_graph, id) :
          d \in Range(order) /\ PlaceIn(order, d) < PlaceIn(order, id)

\* C28: execution_order holds every reachable module exactly once, each
\* after the modules it depends on, also when the reachable modules form a
\* cycle.
C28_ExecutionOrderComplete ==
  Ordered =>
    /\ Range(module_graph.execution_order) = module_graph.reachable_modules
    /\ \A i, j \in 1..Len(module_graph.execution_order) :
         module_graph.execution_order[i] = module_graph.execution_order[j] => i = j
    /\ CycleModules(module_graph) = {} => OrderIsTopological

\* What calculate_execution_order does: a topological order of the
\* reachable modules that no cycle leads to.
C28_OrderOfAcyclicPart ==
  Ordered =>
    /\ OrderIsTopological
    /\ Range(module_graph.execution_order)
         = module_graph.reachable_modules \ CycleModules(module_graph)

\* Fixed-point loop properties.
Nodes(prog) == Len(prog.body)

\* The loop leaves exactly when the pass just run reported no change.
ExitsOnNoChange ==
  [][BreakOrReset => (pc' = "done" <=> ~out.changed)]_vars

\* A pass that reports a change has removed a node, so the passes are at
\* most one more than the nodes removed.
PassesBounded ==
  entry = "perform_dce" =>
    /\ out.pass_count <= Nodes(source.program) - Nodes(program) + 1
    /\ (pc = "done" => out.pass_count >= 1 /\ ~out.changed)

\* C29: given that a dce pass which reports a change removes a node, the
\* loop of perform_dce ends after finitely many passes, and it ends in the
\* first pass that reports no change.
C29_DceLoopTerminates ==
  /\ <>(pc = "done")
  /\ []PassesBounded
  /\ ExitsOnNoChange

\* The loop has ended after three passes, two of which removed statements.
C29_Witness ==
  /\ entry = "perform_dce" /\ pc = "done"
  /\ out.pass_count = 3
  /\ Nodes(program) < Nodes(source.program)

\* C30: perform_webpack_tree_shaking deletes no load call statement in the
\* body of a module whose definition it keeps: every property that is still
\* in its object literal has the body it had, also where the body loads an
\* ID that is no key of the table.
C30_KeptBodiesUntouched ==
  Shaken =>
    \A i \in SourceObjects :
      \A k \in StmtsAt(program, source.program.body[i].lo) :
        \A j \in 1..Len(program.body[k].mods) :
          \E n \in PropsOf(source.program.body[i], program.body[k].mods[j].key) :
            source.program.body[i].mods[n].body = program.body[k].mods[j].body

\* What holds: the only statements deleted from a kept body are bare load
\* calls of IDs outside the reachable set.
C30_OnlyUnreachableLoadsDeleted ==
  Shaken =>
    \A i \in SourceObjects :
      \A k \in StmtsAt(program, source.program.body[i].lo) :
        \A j \in 1..Len(program.body[k].mods) :
          \E n \in PropsOf(source.program.body[i], program.body[k].mods[j].key) :
            program.body[k].mods[j].body
              = SelectSeq(source.program.body[i].mods[n].body,
                          LAMBDA b : ~(b.kind = "load"
                                       /\ b.id \notin module_graph.reachable_modules))

\* The case the claim names: a reachable module whose body loads an ID
\* that is no key of the table has lost that statement.
ExternalLoadDeleted ==
  /\ Shaken
  /\ \E i \in SourceObjects : \E n \in 1..Len(source.program.body[i].mods) :
       /\ source.program.body[i].mods[n].key \in module_graph.reachable_modules
       /\ ExternalId \in BodyIdsOfKind(source.program.body[i].mods[n].body, "load")
       /\ ExternalId \notin DOMAIN module_graph.modules
       /\ \E k \in StmtsAt(program, source.program.body[i].lo) :
            \E j \in PropsOf(program.body[k], source.program.body[i].mods[n].key) :
              program.body[k].mods[j].body = <<>>

====
